---------------------------- MODULE Spec2Model ----------------------------
(***************************************************************************)
(* Model of the remote media download pipeline of rondiveTV:               *)
(*   - the job registry (lib/download-jobs: jobs, jobKeys, cleanupTimers,  *)
(*     jobControllers) with the start and cancel routes,                   *)
(*   - executeDownloadCore (api/download/route.ts): validation, the quota  *)
(*     manager, the attempt loop and the refund on failure.                *)
(* Every await of the code is a step boundary; code between two awaits is  *)
(* one atomic step (Node runs handlers to the next await without           *)
(* interleaving).                                                          *)
(***************************************************************************)
EXTENDS Integers, Sequences, FiniteSets, TLC

\* ------------------------------------------------------------------ bounds
MaxJobs == 2
MaxCalls == 2
MaxLimit == 2
MaxSeqCalls == 6
MaxOutMs == 10      \* reported output times: 0 .. MaxOutMs ms in half ms
PlaylistMs == 10    \* the total duration a playlist declares, in ms
MaxTags == 2        \* tag lines ahead of the segments of a playlist
MaxSegs == 7        \* segment lines of a playlist
MaxVariants == 2 \* variant streams of one master playlist
MaxBandwidth == 2 \* BANDWIDTH values 1..MaxBandwidth
MaxConcurrency == 2 \* workers of the segment fetcher pool
MaxLines == 4       \* lines of a playlist under repair

\* ------------------------------------------------------- program constants
DEFAULT_DAILY_LIMIT == 3
\* while (!ffmpegResult.ok && attempts < 3)
NarrowRetries == 3
DEFAULT_SEGMENT_RETRY == 2
MAX_SEGMENT_PROBES == 5
maxDepth == 3
DEFAULT_SEGMENT_MIN_COUNT == 6

Max(a, b) == IF a >= b THEN a ELSE b

Ids == 1..Max(MaxJobs, MaxCalls)
Users == {"u1", "u2"}
Keys == {"k1", "k2"}
\* The dedup key is a hash of user, normalized url and the display metadata:
\* a key fixes its user and its url.
KeyUser(k) == IF k = "k1" THEN "u1" ELSE "u2"
KeyUrl(k) == IF k = "k1" THEN "hls" ELSE "file"
UrlKinds == {"hls", "file", "missing", "invalid", "badproto", "blocked"}

None == 0
NoJob == [key |-> "", user |-> "", status |-> "none", error |-> "",
          message |-> "", output |-> FALSE]

VARIABLES
  jobs,            \* jobs: Map id -> DownloadJob (NoJob: no entry)
  jobKeys,         \* jobKeys: Map key -> job id (None: no entry)
  cleanupTimers,   \* ids with an entry in cleanupTimers
  armed,           \* ids whose setTimeout(cleanupJob) has not fired yet
  jobControllers,  \* ids with an entry in jobControllers
  nextId,          \* the next fresh id (crypto.randomUUID)
  calls,           \* per invocation of executeDownloadCore: its closure state
  quotaCache,      \* shared cache, download-limit:<user>:<day>: <<>> or <<n>>
  config,          \* admin config snapshot: user -> entry or absent
  qlog,            \* responses of the sequential quota calls (QuotaSpec)
  pool,            \* one run of downloadHlsSegmentsParallel
  gw,              \* the proxy gateway: the token store and one request
  resolver,        \* one playlist repair of runAttempt
  jobCache,        \* the cache entries download-job:<id> (NoJob: none)
  jobIndex,        \* the cache entries download-job-index:<user>
  media,           \* one call of resolveMediaPlaylist
  transcoder,      \* one attempt's transcoder input (inputUrl, manifest)
  tracked,         \* one DownloadJob of the registry with its progress object
  userIndex,       \* one user's download-job-index entry and the calls on it
  snap             \* one job, its cache snapshot and lastPersistAt, the clock

vars == <<jobs, jobKeys, cleanupTimers, armed, jobControllers, nextId, calls,
          quotaCache, config, qlog, pool, gw, resolver, jobCache, jobIndex, media, transcoder, tracked, userIndex, snap>>

registry == <<jobs, jobKeys, cleanupTimers, armed, jobControllers>>

\* ------------------------------------------------------------ job registry

\* isJobActive
isJobActive(job) == job.status \in {"queued", "running"}

\* getJobByKey: None when the key has no entry or its job is gone
getJobByKey(js, jk, key) ==
  IF jk[key] = None THEN None
  ELSE IF js[jk[key]].status = "none" THEN None ELSE jk[key]

\* The registry as one value, so that the operations compose as in the code.
Reg == [jobs |-> jobs, jobKeys |-> jobKeys, cleanupTimers |-> cleanupTimers,
        armed |-> armed, jobControllers |-> jobControllers]

\* createJob: a fresh queued job, registered under its id and its key
createJob(R, id, key) ==
  [R EXCEPT !.jobs[id] = [key |-> key, user |-> KeyUser(key),
                          status |-> "queued", error |-> "",
                          message |-> "queued", output |-> FALSE],
            !.jobKeys[key] = id]

\* updateJob: merge the patch into the job; no-op on an unknown id
updateJob(R, id, patch) ==
  IF R.jobs[id].status = "none" THEN R
  ELSE [R EXCEPT !.jobs[id] =
          [f \in DOMAIN R.jobs[id] |->
             IF f \in DOMAIN patch THEN patch[f] ELSE R.jobs[id][f]]]

\* scheduleCleanup: one timer per job id
scheduleCleanup(R, id) ==
  IF id \in R.cleanupTimers THEN R
  ELSE [R EXCEPT !.cleanupTimers = @ \cup {id}, !.armed = @ \cup {id}]

\* markJobFailed
markJobFailed(R, id, error) ==
  IF R.jobs[id].status = "none" THEN R
  ELSE LET R1 == updateJob(R, id, [status |-> "failed", error |-> error,
                                   message |-> error])
           R2 == [R1 EXCEPT !.jobControllers = @ \ {id}]
       IN scheduleCleanup(R2, id)

\* markJobCompleted
markJobCompleted(R, id) ==
  LET R1 == updateJob(R, id, [status |-> "completed", message |-> "done",
                              output |-> TRUE])
      R2 == [R1 EXCEPT !.jobControllers = @ \ {id}]
  IN scheduleCleanup(R2, id)

\* cleanupJob: drop the job, its key entry, its timer and its controller
cleanupJob(R, id) ==
  IF R.jobs[id].status = "none" THEN R
  ELSE [R EXCEPT !.jobs[id] = NoJob,
                 !.jobKeys[R.jobs[id].key] = None,
                 !.cleanupTimers = @ \ {id},
                 !.armed = @ \ {id},
                 !.jobControllers = @ \ {id}]

\* cancelJob, the registry part: force failed with the reason, schedule cleanup
cancelJob(R, id, reason) ==
  scheduleCleanup(
    updateJob(R, id, [status |-> "failed", error |-> reason,
                      message |-> reason]), id)

SetReg(R) ==
  /\ jobs' = R.jobs
  /\ jobKeys' = R.jobKeys
  /\ cleanupTimers' = R.cleanupTimers
  /\ armed' = R.armed
  /\ jobControllers' = R.jobControllers


\* ----------------------------------------------------------- quota manager

\* toNumber: a finite number as is; <<>> is a value that is no number
\* (undefined; for the counter also null, Number(null) being the fallback 0)
\* and gives the fallback
toNumber(raw, fallback) == IF raw = <<>> THEN fallback ELSE raw[1]

\* Math.max(0, Math.floor(toNumber(rawCount, 0)))
currentCountOf(raw) == Max(0, toNumber(raw, 0))

\* limitEnabled = userEntry.downloadLimitEnabled !== false
limitEnabledOf(entry) == entry.downloadLimitEnabled

\* limitPerDay = Math.max(0, Math.floor(toNumber(downloadLimitPerDay, 3)))
limitPerDayOf(entry) ==
  Max(0, toNumber(entry.downloadLimitPerDay, DEFAULT_DAILY_LIMIT))

\* Variant of checkAndConsumeQuota that denies only above the limit
\* (currentCount > limitPerDay)
checkAndConsumeQuotaAboveLimit(limitEnabled, limitPerDay, checkOnly, raw) ==
  IF ~limitEnabled
    THEN [allowed |-> TRUE, remaining |-> <<>>, cacheKey |-> FALSE,
          write |-> FALSE, next |-> 0]
  ELSE IF limitPerDay <= 0
    THEN [allowed |-> FALSE, remaining |-> <<0>>, cacheKey |-> FALSE,
          write |-> FALSE, next |-> 0]
  ELSE LET currentCount == currentCountOf(raw) IN
    IF currentCount > limitPerDay
      THEN [allowed |-> FALSE, remaining |-> <<0>>, cacheKey |-> FALSE,
            write |-> FALSE, next |-> 0]
    ELSE IF checkOnly
      THEN [allowed |-> TRUE,
            remaining |-> <<Max(0, limitPerDay - currentCount)>>,
            cacheKey |-> TRUE, write |-> FALSE, next |-> 0]
    ELSE [allowed |-> TRUE,
          remaining |-> <<Max(0, limitPerDay - (currentCount + 1))>>,
          cacheKey |-> TRUE, write |-> TRUE, next |-> currentCount + 1]

\* Variant of checkAndConsumeQuota whose check-only call consumes as well
checkAndConsumeQuotaCountsChecks(limitEnabled, limitPerDay, checkOnly, raw) ==
  IF ~limitEnabled
    THEN [allowed |-> TRUE, remaining |-> <<>>, cacheKey |-> FALSE,
          write |-> FALSE, next |-> 0]
  ELSE IF limitPerDay <= 0
    THEN [allowed |-> FALSE, remaining |-> <<0>>, cacheKey |-> FALSE,
          write |-> FALSE, next |-> 0]
  ELSE LET currentCount == currentCountOf(raw) IN
    IF currentCount >= limitPerDay
      THEN [allowed |-> FALSE, remaining |-> <<0>>, cacheKey |-> FALSE,
            write |-> FALSE, next |-> 0]
    ELSE [allowed |-> TRUE,
          remaining |-> <<Max(0, limitPerDay - (currentCount + 1))>>,
          cacheKey |-> TRUE, write |-> TRUE, next |-> currentCount + 1]

\* Variant of refundQuota without the currentCount > 0 test
refundQuotaUnguarded(raw) == <<currentCountOf(raw) - 1>>

\* checkAndConsumeQuota, given what db.getCache returned (raw is not read
\* when the limit is disabled or not positive).  write/next: the db.setCache
\* the call goes on to make.
checkAndConsumeQuota(limitEnabled, limitPerDay, checkOnly, raw) ==
  IF ~limitEnabled
    THEN [allowed |-> TRUE, remaining |-> <<>>, cacheKey |-> FALSE,
          write |-> FALSE, next |-> 0]
  ELSE IF limitPerDay <= 0
    THEN [allowed |-> FALSE, remaining |-> <<0>>, cacheKey |-> FALSE,
          write |-> FALSE, next |-> 0]
  ELSE LET currentCount == currentCountOf(raw) IN
    IF currentCount >= limitPerDay
      THEN [allowed |-> FALSE, remaining |-> <<0>>, cacheKey |-> FALSE,
            write |-> FALSE, next |-> 0]
    ELSE IF checkOnly
      THEN [allowed |-> TRUE,
            remaining |-> <<Max(0, limitPerDay - currentCount)>>,
            cacheKey |-> TRUE, write |-> FALSE, next |-> 0]
    ELSE [allowed |-> TRUE,
          remaining |-> <<Max(0, limitPerDay - (currentCount + 1))>>,
          cacheKey |-> TRUE, write |-> TRUE, next |-> currentCount + 1]

\* refundQuota after its db.getCache: the value it writes back, <<>> when it
\* writes nothing
refundQuota(raw) ==
  LET currentCount == currentCountOf(raw) IN
  IF currentCount > 0 THEN <<currentCount - 1>> ELSE <<>>

\* ------------------------------------------------- executeDownloadCore state

NoQuota == [allowed |-> FALSE, remaining |-> <<>>, cacheKey |-> FALSE,
            write |-> FALSE, next |-> 0]

NoCall == [kind |-> "none", pc |-> "idle", user |-> "", url |-> "",
           checkOnly |-> FALSE, aborted |-> FALSE, killed |-> FALSE,
           attempt |-> 0, ffmpegFailed |-> FALSE, expected |-> FALSE,
           lastError |-> "", quotaResult |-> NoQuota, refunds |-> <<>>,
           outcome |-> "none", opts |-> {}, narrowed |-> 0, runs |-> 0,
           preferProxy |-> FALSE, snapshot |-> NoJob]

NewCall(kind, user, url, checkOnly) ==
  [NoCall EXCEPT !.kind = kind, !.pc = "validate", !.user = user,
                 !.url = url, !.checkOnly = checkOnly,
                 !.outcome = "pending"]

isHls(cl) == cl.url = "hls"

\* Variant of attemptModes that starts every HLS source with the proxy
attemptModesProxyFirst(hls, preferProxy) ==
  IF hls THEN <<TRUE, FALSE>> ELSE <<FALSE>>

\* attemptModes = isHls ? (preferProxy ? [true, false] : [false, true]) : [false]
attemptModes(hls, preferProxy) ==
  IF hls THEN (IF preferProxy THEN <<TRUE, FALSE>> ELSE <<FALSE, TRUE>>)
  ELSE <<FALSE>>

\* The mode of the current attempt (neither route passes preferProxy: it is
\* false in every call they make)
useProxy(cl) == attemptModes(isHls(cl), cl.preferProxy)[cl.attempt]

\* The conditional flag groups of buildArgs, and the option names a failed
\* run may report as unsupported ("other": an option of no group)
Groups ==
  {"headers", "protocol_whitelist", "allowed_extensions",
   "allowed_segment_extensions"}
OptionNames == Groups \cup {"user_agent", "other"}

\* optionState at the start of an attempt: the headers (headerArgs always
\* holds the User-Agent), the three HLS groups for an HLS source
optionState(hls) == IF hls THEN Groups ELSE {"headers"}

\* Variant of the narrowing step that drops every enabled group at once
narrowAll(opts, unsupported) == {}

\* One pass of the narrowing loop: the enabled groups without those the
\* failed run named (the headers group also by user_agent)
narrow(opts, unsupported) ==
  {g \in opts :
     IF g = "headers"
       THEN ~("headers" \in unsupported \/ "user_agent" \in unsupported)
       ELSE g \notin unsupported}

\* spawn(ffmpegPath, args): a new transcoder process; the abort listener is
\* registered on the signal after the spawn.  The first run of an attempt
\* starts from optionState.
spawnFfmpeg(cl) ==
  [cl EXCEPT !.pc = "ffmpeg", !.killed = FALSE,
             !.opts = optionState(isHls(cl)), !.narrowed = 0, !.runs = 1]

\* Variant of the retry that does not count itself
respawnUncounted(cl, opts) ==
  [cl EXCEPT !.pc = "ffmpeg", !.killed = FALSE, !.opts = opts,
             !.runs = @ + 1]

\* attempts += 1; ffmpegResult = await runFfmpeg(optionState)
respawnFfmpeg(cl, opts) ==
  [cl EXCEPT !.pc = "ffmpeg", !.killed = FALSE, !.opts = opts,
             !.narrowed = @ + 1, !.runs = @ + 1]

\* The start of runAttempt(useProxy), to its first await: the progress
\* message, then the proxy token write (HLS, proxy), the playlist fetch (HLS,
\* direct) or the transcoder (not HLS).
beginAttempt(cl, n) ==
  LET c1 == [cl EXCEPT !.attempt = n]
      proxy == attemptModes(isHls(cl), cl.preferProxy)[n]
  IN [call |-> IF isHls(cl)
                 THEN [c1 EXCEPT !.pc = IF proxy THEN "token" ELSE "resolve"]
                 ELSE spawnFfmpeg(c1),
      msg |-> IF proxy THEN "proxy" ELSE "direct"]

\* void refundQuota(): returns at once without a cache key, else its
\* db.getCache is in flight
startRefund(cl) ==
  IF cl.quotaResult.cacheKey
    THEN [cl EXCEPT !.refunds = Append(@, [st |-> "get", cur |-> <<>>])]
    ELSE cl

\* Variant of the refund guard that refunds after every failure
refundWantedAlways(cl) == TRUE

\* The guard of the refund after the attempt loop and in the outer catch
refundWanted(cl) == cl.ffmpegFailed

\* A throw out of runAttempt, caught by the attempt loop: remember the error,
\* go on with the next mode (HLS only) or leave the loop, refund and remove
\* the temp directory.
attemptFailed(cl, msg, byFfmpeg) ==
  LET c1 == [cl EXCEPT !.lastError = msg, !.ffmpegFailed = @ \/ byFfmpeg,
                       !.opts = {}, !.narrowed = 0, !.runs = 0]
  IN IF isHls(cl)
          /\ cl.attempt < Len(attemptModes(isHls(cl), cl.preferProxy))
       THEN beginAttempt(c1, cl.attempt + 1)
       ELSE [call |-> [(IF refundWanted(c1) THEN startRefund(c1) ELSE c1)
                         EXCEPT !.pc = "exhausted"],
             msg |-> ""]

\* A DownloadError thrown before the attempt loop
reject(cl, msg) ==
  [call |-> [cl EXCEPT !.pc = "done", !.outcome = "error",
                       !.lastError = msg],
   msg |-> ""]

Quiet(cl) == [call |-> cl, msg |-> ""]

\* One step of call c: its new closure state, the onProgress message it
\* emitted (runDownloadJob: updateJob(jobId, {progress})), and when the call
\* returned or threw in this step, runDownloadJob's markJobCompleted or
\* markJobFailed.
StepTo(c, r) ==
  /\ calls' = [calls EXCEPT ![c] = r.call]
  /\ IF r.call.kind = "job"
       THEN LET R0 == IF r.msg = "" THEN Reg
                      ELSE updateJob(Reg, c, [message |-> r.msg])
            IN SetReg(CASE r.call.outcome = "ok" -> markJobCompleted(R0, c)
                        [] r.call.outcome = "error" ->
                             markJobFailed(R0, c, r.call.lastError)
                        [] OTHER -> R0)
       ELSE UNCHANGED registry

\* ------------------------------------------------- executeDownloadCore steps

Ghost == "ghost"   \* a username with no entry in the config

\* The url checks of executeDownloadCore, in order: the message thrown
urlError(url) ==
  CASE url = "missing" -> "missing url"
    [] url = "invalid" -> "invalid url"
    [] url = "badproto" -> "unsupported protocol"
    [] url = "blocked" -> "target blocked"
    [] OTHER -> ""

\* Validation, the user's config entry and the quota checks that need no
\* cache read; then the quota read (db.getCache) or fs.mkdtemp is in flight.
Validate(c) ==
  LET cl == calls[c] IN
  /\ cl.pc = "validate"
  /\ UNCHANGED <<nextId, quotaCache, config, qlog, pool, gw, resolver, jobCache, jobIndex, media, transcoder, tracked, userIndex, snap>>
  /\ IF urlError(cl.url) # ""
       THEN StepTo(c, reject(cl, urlError(cl.url)))
     ELSE IF cl.user = Ghost \/ config[cl.user].banned
       THEN StepTo(c, reject(cl, "forbidden"))
     ELSE LET entry == config[cl.user]
              q == checkAndConsumeQuota(limitEnabledOf(entry),
                                        limitPerDayOf(entry), cl.checkOnly, <<>>)
          IN IF ~limitEnabledOf(entry)
               THEN IF cl.checkOnly
                      THEN StepTo(c, Quiet([cl EXCEPT !.quotaResult = q,
                                              !.pc = "done",
                                              !.outcome = "checked"]))
                      ELSE StepTo(c, Quiet([cl EXCEPT !.quotaResult = q,
                                              !.pc = "mkdtemp"]))
             ELSE IF limitPerDayOf(entry) <= 0
               THEN StepTo(c, reject([cl EXCEPT !.quotaResult = q],
                                     "quota exhausted"))
             ELSE StepTo(c, Quiet([cl EXCEPT !.pc = "quotaGet"]))

\* db.getCache(cacheKey) returns: denied, check-only answer, or the counter
\* write (db.setCache) goes out
QuotaGet(c) ==
  LET cl == calls[c]
      entry == config[cl.user]
      q == checkAndConsumeQuota(limitEnabledOf(entry), limitPerDayOf(entry),
                                cl.checkOnly, quotaCache[cl.user])
  IN
  /\ cl.pc = "quotaGet"
  /\ UNCHANGED <<nextId, quotaCache, config, qlog, pool, gw, resolver, jobCache, jobIndex, media, transcoder, tracked, userIndex, snap>>
  /\ IF ~q.allowed
       THEN StepTo(c, reject([cl EXCEPT !.quotaResult = q],
                             "quota exhausted"))
     ELSE IF ~q.write
       THEN StepTo(c, Quiet([cl EXCEPT !.quotaResult = q, !.pc = "done",
                               !.outcome = "checked"]))
     ELSE StepTo(c, Quiet([cl EXCEPT !.quotaResult = q, !.pc = "quotaSet"]))

\* db.setCache(cacheKey, nextCount, expireSeconds) lands; fs.mkdtemp next
QuotaSet(c) ==
  LET cl == calls[c] IN
  /\ cl.pc = "quotaSet"
  /\ quotaCache' = [quotaCache EXCEPT ![cl.user] = <<cl.quotaResult.next>>]
  /\ StepTo(c, Quiet([cl EXCEPT !.pc = "mkdtemp", !.quotaResult.write = FALSE,
                          !.quotaResult.next = 0]))
  /\ UNCHANGED <<nextId, config, qlog, pool, gw, resolver, jobCache, jobIndex, media, transcoder, tracked, userIndex, snap>>

\* fs.mkdtemp returned: the attempt loop starts with the first mode
Mkdtemp(c) ==
  /\ calls[c].pc = "mkdtemp"
  /\ StepTo(c, beginAttempt(calls[c], 1))
  /\ UNCHANGED <<nextId, quotaCache, config, qlog, pool, gw, resolver, jobCache, jobIndex, media, transcoder, tracked, userIndex, snap>>

\* The proxy token's db.setCache returned or threw
Token(c) ==
  LET cl == calls[c] IN
  /\ cl.pc = "token"
  /\ UNCHANGED <<nextId, quotaCache, config, qlog, pool, gw, resolver, jobCache, jobIndex, media, transcoder, tracked, userIndex, snap>>
  /\ \/ StepTo(c, Quiet([cl EXCEPT !.pc = "resolve"]))
     \/ StepTo(c, attemptFailed(cl, "Proxy token unavailable", FALSE))

\* resolveMediaPlaylist and the playlist checks finished:
\*  - a playlist error (not M3U8, non-media segment, no playable segments)
\*    is rethrown as DownloadError 422;
\*  - any other error is swallowed and the transcoder gets the remote url;
\*  - a media playlist, with or without a total duration: direct mode tries
\*    the parallel segment download (which may decline at once), proxy mode
\*    writes the rewritten playlist.
ResolveWith(c, outcome) ==
  LET cl == calls[c] IN
  /\ cl.pc = "resolve"
  /\ UNCHANGED <<nextId, quotaCache, config, qlog, pool, gw, resolver,
                 jobCache, jobIndex, media, transcoder, tracked, userIndex, snap>>
  /\ CASE outcome = "playlistError" ->
            StepTo(c, attemptFailed(cl, "No playable media segments", FALSE))
       [] outcome \in {"fetchFailed", "otherError"} ->
            StepTo(c, Quiet(spawnFfmpeg(cl)))
       [] OTHER ->
            \E dur \in BOOLEAN :
              IF useProxy(cl)
                THEN StepTo(c, Quiet([cl EXCEPT !.expected = dur,
                                                !.pc = "write"]))
                ELSE \E engaged \in BOOLEAN :
                       StepTo(c, [call |-> [cl EXCEPT !.expected = dur,
                                              !.pc = IF engaged THEN "pool"
                                                     ELSE "write"],
                                  msg |-> "segments"])

\* What the resolution of the playlist came to: an error the catch keeps as
\* playlistError, fetchPlaylist's "Playlist fetch failed with <status>", any
\* other error, or a media playlist
ResolveOutcomes == {"playlistError", "fetchFailed", "otherError", "media"}

Resolve(c) == \E outcome \in ResolveOutcomes : ResolveWith(c, outcome)

\* downloadHlsSegmentsParallel finished: with a local playlist (the
\* transcoder starts on it), or with an error that is swallowed (the playlist
\* is written for the transcoder).  With the signal raised every fetch of the
\* pool fails.
Pool(c) ==
  LET cl == calls[c] IN
  /\ cl.pc = "pool"
  /\ UNCHANGED <<nextId, quotaCache, config, qlog, pool, gw, resolver, jobCache, jobIndex, media, transcoder, tracked, userIndex, snap>>
  /\ \/ /\ ~cl.aborted
        /\ StepTo(c, Quiet(spawnFfmpeg(cl)))
     \/ StepTo(c, Quiet([cl EXCEPT !.pc = "write"]))

\* fs.writeFile(playlistPath) returned: the transcoder is spawned
Write(c) ==
  /\ calls[c].pc = "write"
  /\ StepTo(c, Quiet(spawnFfmpeg(calls[c])))
  /\ UNCHANGED <<nextId, quotaCache, config, qlog, pool, gw, resolver, jobCache, jobIndex, media, transcoder, tracked, userIndex, snap>>

\* emitProgress while the transcoder runs
FfmpegProgress(c) ==
  /\ calls[c].pc = "ffmpeg"
  /\ calls[c].kind = "job"
  /\ StepTo(c, [call |-> calls[c], msg |-> "downloading"])
  /\ UNCHANGED <<nextId, quotaCache, config, qlog, pool, gw, resolver, jobCache, jobIndex, media, transcoder, tracked, userIndex, snap>>

\* The transcoder's close event: killed by the abort handler, exit code 0
\* (fs.stat of the output next), or a failure
FfmpegClose(c) ==
  LET cl == calls[c] IN
  /\ cl.pc = "ffmpeg"
  /\ UNCHANGED <<nextId, quotaCache, config, qlog, pool, gw, resolver, jobCache, jobIndex, media, transcoder, tracked, userIndex, snap>>
  /\ IF cl.killed
       THEN StepTo(c, attemptFailed(cl, "Download aborted", TRUE))
       ELSE \/ StepTo(c, Quiet([cl EXCEPT !.pc = "check"]))
            \/ StepTo(c, attemptFailed(cl, "FFmpeg exited with code 1",
                                       TRUE))

\* The transcoder fails (close with a code other than 0, or a spawn error)
\* and its stderr names the options of unsupported as unrecognized: the
\* narrowing loop retries with fewer groups, or gives up
FfmpegCloseUnsupported(c, unsupported) ==
  LET cl == calls[c] IN
  /\ cl.pc = "ffmpeg"
  /\ ~cl.killed
  /\ unsupported # {}
  /\ UNCHANGED <<nextId, quotaCache, config, qlog, pool, gw, resolver, jobCache, jobIndex, media, transcoder, tracked, userIndex, snap>>
  /\ IF cl.narrowed < NarrowRetries /\ narrow(cl.opts, unsupported) # cl.opts
       THEN StepTo(c, Quiet(respawnFfmpeg(cl, narrow(cl.opts, unsupported))))
       ELSE StepTo(c, attemptFailed(cl, "FFmpeg exited with code 1", TRUE))

\* What the transcoder and fs.stat may report: a missing (<<>>), empty or
\* non-empty output file, and the last out_time_ms of the progress stream,
\* which ffmpeg gives in microseconds (0: none was reported)
Sizes == {<<>>, <<0>>, <<1>>}
OutTimes == {k * 500 : k \in 0..(2 * MaxOutMs)}

\* expectedDurationMs of a playlist that declared a total duration (null,
\* here 0, otherwise)
expectedDurationMs(cl) == IF cl.expected THEN PlaylistMs ELSE 0

\* attemptDurationMs = outTimeMs ? Math.round(outTimeMs) : null (0 for null),
\* with lastOutTimeMs = parsed / 1000
attemptDurationMs(outTime) == (outTime + 500) \div 1000

\* The output checks of runAttempt after a run that ended with code 0: the
\* message of the error thrown, "" for a complete output
outputError(size, expected, outTime) ==
  IF size = <<>> \/ size[1] <= 0 THEN "Empty output from ffmpeg"
  ELSE IF /\ expected # 0
          /\ attemptDurationMs(outTime) # 0
          /\ 10 * attemptDurationMs(outTime) < 9 * expected
    THEN "Output appears incomplete"
  ELSE ""

\* The output checks for a given fs.stat result and reported output time: a
\* complete output ends the call with its result; an empty output, or one
\* shorter than 90% of the expected duration, fails the attempt
CheckOutputWith(c, size, outTime) ==
  LET cl == calls[c]
      err == outputError(size, expectedDurationMs(cl), outTime)
  IN
  /\ cl.pc = "check"
  /\ UNCHANGED <<nextId, quotaCache, config, qlog, pool, gw, resolver, jobCache, jobIndex, media, transcoder, tracked, userIndex, snap>>
  /\ IF err = ""
       THEN StepTo(c, Quiet([cl EXCEPT !.pc = "done", !.outcome = "ok",
                               !.opts = {}, !.narrowed = 0, !.runs = 0]))
       ELSE StepTo(c, attemptFailed(cl, err, TRUE))

CheckOutput(c) ==
  \E size \in Sizes, outTime \in OutTimes : CheckOutputWith(c, size, outTime)

\* After the loop: cleanupTemp returned, lastError is thrown into the outer
\* catch, which refunds again and removes the temp directory again
Exhausted(c) ==
  LET cl == calls[c] IN
  /\ cl.pc = "exhausted"
  /\ StepTo(c, Quiet([(IF refundWanted(cl) THEN startRefund(cl) ELSE cl)
                        EXCEPT !.pc = "rethrow"]))
  /\ UNCHANGED <<nextId, quotaCache, config, qlog, pool, gw, resolver, jobCache, jobIndex, media, transcoder, tracked, userIndex, snap>>

\* The outer catch rethrows: the call ends with the last error
Rethrow(c) ==
  LET cl == calls[c] IN
  /\ cl.pc = "rethrow"
  /\ StepTo(c, Quiet([cl EXCEPT !.pc = "done", !.outcome = "error"]))
  /\ UNCHANGED <<nextId, quotaCache, config, qlog, pool, gw, resolver, jobCache, jobIndex, media, transcoder, tracked, userIndex, snap>>

\* refundQuota: db.getCache returned; with a count of 0 nothing is written
RefundGet(c, i) ==
  LET cl == calls[c] IN
  /\ i \in DOMAIN cl.refunds
  /\ cl.refunds[i].st = "get"
  /\ calls' = [calls EXCEPT ![c].refunds[i] =
                 IF refundQuota(quotaCache[cl.user]) = <<>>
                   THEN [st |-> "skipped", cur |-> <<>>]
                   ELSE [st |-> "set", cur |-> quotaCache[cl.user]]]
  /\ UNCHANGED <<registry, nextId, quotaCache, config, qlog, pool, gw, resolver, jobCache, jobIndex, media, transcoder, tracked, userIndex, snap>>

\* refundQuota: db.setCache(cacheKey, currentCount - 1, expireSeconds)
RefundSet(c, i) ==
  LET cl == calls[c] IN
  /\ i \in DOMAIN cl.refunds
  /\ cl.refunds[i].st = "set"
  /\ quotaCache' = [quotaCache EXCEPT ![cl.user] = refundQuota(cl.refunds[i].cur)]
  /\ calls' = [calls EXCEPT ![c].refunds[i] = [st |-> "done", cur |-> <<>>]]
  /\ UNCHANGED <<registry, nextId, config, qlog, pool, gw, resolver, jobCache, jobIndex, media, transcoder, tracked, userIndex, snap>>

\* ------------------------------------------------------------------ routes

\* The dedup test of the start route
reusable(job) ==
  isJobActive(job) \/ (job.status = "completed" /\ job.output)

\* What GET /api/download/start answers for the request that hashes to key
\* k: the existing job with deduped = true, or the job it creates
startResponse(k) ==
  LET existing == getJobByKey(jobs, jobKeys, k) IN
  IF existing # None /\ reusable(jobs[existing])
    THEN [jobId |-> existing, status |-> jobs[existing].status,
          deduped |-> TRUE]
    ELSE [jobId |-> nextId, status |-> "queued", deduped |-> FALSE]

\* runDownloadJob up to executeDownloadCore's first await:
\* attachJobController, updateJob running
runDownloadJob(R, id) ==
  updateJob([R EXCEPT !.jobControllers = @ \cup {id}], id,
            [status |-> "running", message |-> "starting"])

\* GET /api/download/start: a dedup hit changes nothing; otherwise createJob
\* and the start of runDownloadJob
StartRouteGET(k) ==
  /\ UNCHANGED <<quotaCache, config, qlog, pool, gw, resolver, jobCache, jobIndex, media, transcoder, tracked, userIndex, snap>>
  /\ IF startResponse(k).deduped
       THEN UNCHANGED <<registry, nextId, calls>>
       ELSE /\ nextId <= MaxJobs
            /\ SetReg(runDownloadJob(createJob(Reg, nextId, k), nextId))
            /\ calls' = [calls EXCEPT ![nextId] =
                           NewCall("job", KeyUser(k), KeyUrl(k), FALSE)]
            /\ nextId' = nextId + 1

\* controller.abort(): the signal is raised once; the abort listener of a
\* running transcoder kills it
abortSignal(cl) ==
  IF cl.aborted THEN cl
  ELSE [cl EXCEPT !.aborted = TRUE, !.killed = (cl.pc = "ffmpeg")]

\* The status POST /api/download/cancel answers to user u for job id: 404
\* unknown job, 403 not the owner, 200 when cancelJob returned true (it does
\* for every job of the registry), 409 otherwise
\* Variant of the owner test that lets every requester pass
ownedByAnyone(job, u) == TRUE

\* job.user === the requester's username
ownedBy(job, u) == job.user = u

\* getJob(jobId), and getJobFromCache(jobId) when the registry has no entry
lookupJob(id) == IF jobs[id].status # "none" THEN jobs[id] ELSE jobCache[id]

\* The status of the cancel route's answer; cancelJob returns false, and the
\* route answers 409, only when the registry has no entry
cancelResponse(u, id) ==
  IF lookupJob(id).status = "none" THEN 404
  ELSE IF ~ownedBy(lookupJob(id), u) THEN 403
  ELSE IF jobs[id].status = "none" THEN 409
  ELSE 200

\* POST /api/download/cancel by user u for job id: cancelJob raises the
\* signal of the attached controller and forces the job to failed
CancelRoutePOST(u, id) ==
  /\ UNCHANGED <<nextId, quotaCache, config, qlog, pool, gw, resolver, jobCache, jobIndex, media, transcoder, tracked, userIndex, snap>>
  /\ IF cancelResponse(u, id) = 200
       THEN /\ calls' = [calls EXCEPT ![id] =
                           IF id \in jobControllers THEN abortSignal(@) ELSE @]
            /\ SetReg(cancelJob(Reg, id, "Canceled"))
       ELSE UNCHANGED <<registry, calls>>

\* The cleanup timer of job id fires: cleanupJob(id)
CleanupTimerFire(id) ==
  /\ id \in armed
  /\ SetReg(cleanupJob([Reg EXCEPT !.armed = @ \ {id}], id))
  /\ UNCHANGED <<nextId, calls, quotaCache, config, qlog, pool, gw, resolver, jobCache, jobIndex, media, transcoder, tracked, userIndex, snap>>

\* GET /api/download by user u: executeDownloadCore without a job
DownloadRouteGET(u, url, checkOnly) ==
  /\ nextId <= MaxCalls
  /\ calls' = [calls EXCEPT ![nextId] = NewCall("direct", u, url, checkOnly)]
  /\ nextId' = nextId + 1
  /\ UNCHANGED <<registry, quotaCache, config, qlog, pool, gw, resolver, jobCache, jobIndex, media, transcoder, tracked, userIndex, snap>>

\* request.signal of a direct call: the client went away
ClientAbort(c) ==
  /\ calls[c].kind = "direct"
  /\ calls[c].outcome = "pending"
  /\ ~calls[c].aborted
  /\ calls' = [calls EXCEPT ![c] = abortSignal(@)]
  /\ UNCHANGED <<registry, nextId, quotaCache, config, qlog, pool, gw, resolver, jobCache, jobIndex, media, transcoder, tracked, userIndex, snap>>

\* ----------------------------------------------- job snapshots and routes

\* An error answer of a job route: it carries nothing of the job
errorBody(code, error) ==
  [code |-> code, jobId |-> None, status |-> "", message |-> "",
   output |-> FALSE, error |-> error]

\* GET /api/download/status by user u for job id
statusResponse(u, id) ==
  LET job == lookupJob(id) IN
  IF job.status = "none" THEN errorBody(404, "Not found")
  ELSE IF ~ownedBy(job, u) THEN errorBody(403, "Forbidden")
  ELSE [code |-> 200, jobId |-> id, status |-> job.status,
        message |-> job.message, output |-> job.output, error |-> job.error]

\* GET /api/download/file by user u for job id; stats: fs.stat found a
\* non-empty output file
fileResponse(u, id, stats) ==
  LET job == lookupJob(id) IN
  IF job.status = "none" THEN errorBody(404, "Not found")
  ELSE IF ~ownedBy(job, u) THEN errorBody(403, "Forbidden")
  ELSE IF job.status # "completed" \/ ~job.output
    THEN errorBody(409, "Not ready")
  ELSE IF ~stats THEN errorBody(410, "File not found")
  ELSE [code |-> 200, jobId |-> id, status |-> job.status, message |-> "",
        output |-> TRUE, error |-> ""]

\* listJobsForUser: the ids of the user's index, or of the registry's jobs of
\* the user when the index is empty
listIds(u) ==
  IF jobIndex[u] = {} /\ \E id \in Ids : jobs[id].status # "none"
    THEN {id \in Ids : jobs[id].status # "none" /\ ownedBy(jobs[id], u)}
    ELSE jobIndex[u]

\* listJobsForUser: the ids of the jobs it returns
listJobsForUser(u) ==
  {id \in listIds(u) :
     lookupJob(id).status # "none" /\ ownedBy(lookupJob(id), u)}

\* GET /api/download/status: it reads and changes nothing
StatusRouteGET(u, id) ==
  /\ statusResponse(u, id).code \in {200, 403, 404}
  /\ UNCHANGED vars

\* GET /api/download/file: it reads and changes nothing
FileRouteGET(u, id) ==
  /\ \E stats \in BOOLEAN :
       fileResponse(u, id, stats).code \in {200, 403, 404, 409, 410}
  /\ UNCHANGED vars

\* GET /api/download/jobs: the ids that gave no job of the user leave the
\* index, unless that cache write fails
ListRouteGET(u) ==
  /\ \/ jobIndex' = [jobIndex EXCEPT ![u] = @ \cap listJobsForUser(u)]
     \/ UNCHANGED jobIndex
  /\ UNCHANGED <<registry, nextId, calls, quotaCache, config, qlog, pool, gw,
                 resolver, jobCache, media, transcoder, tracked, userIndex, snap>>

\* addJobToUserIndex of createJob has written the index
IndexLands(id) ==
  /\ jobs[id].status # "none"
  /\ id \notin jobIndex[jobs[id].user]
  /\ jobIndex' = [jobIndex EXCEPT ![jobs[id].user] = @ \cup {id}]
  /\ UNCHANGED <<registry, nextId, calls, quotaCache, config, qlog, pool, gw,
                 resolver, jobCache, media, transcoder, tracked, userIndex, snap>>

\* A persistJob that nothing awaits (createJob, onProgress) or that
\* cancelJob awaits has written its snapshot
SnapshotLands(id) ==
  /\ jobs[id].status # "none"
  /\ jobCache[id] # jobs[id]
  /\ jobCache' = [jobCache EXCEPT ![id] = jobs[id]]
  /\ UNCHANGED <<registry, nextId, calls, quotaCache, config, qlog, pool, gw,
                 resolver, jobIndex, media, transcoder, tracked, userIndex, snap>>

\* The snapshot of a job that left the registry goes: cleanupJob's write of
\* null after its fs.rm, or the entry's TTL
CacheExpire(id) ==
  /\ jobs[id].status = "none"
  /\ jobCache[id] # NoJob
  /\ jobCache' = [jobCache EXCEPT ![id] = NoJob]
  /\ UNCHANGED <<registry, nextId, calls, quotaCache, config, qlog, pool, gw,
                 resolver, jobIndex, media, transcoder, tracked, userIndex, snap>>

CompletedPatch == [status |-> "completed", message |-> "done", output |-> TRUE]
FailedPatch(error) == [status |-> "failed", error |-> error, message |-> error]

\* The rest of markJobCompleted and markJobFailed once updateJob returned
afterUpdate(R, id) ==
  scheduleCleanup([R EXCEPT !.jobControllers = @ \ {id}], id)

\* The catch of runDownloadJob: markJobFailed up to the await in persistJob,
\* or all of it when the job is gone or persistJob is throttled
catchMarkFailed(R, cl, id, error, throttled) ==
  IF R.jobs[id].status = "none"
    THEN [reg |-> R, call |-> [cl EXCEPT !.pc = "done", !.lastError = error]]
  ELSE IF throttled
    THEN [reg |-> markJobFailed(R, id, error),
          call |-> [cl EXCEPT !.pc = "done", !.lastError = error]]
  ELSE LET R1 == updateJob(R, id, FailedPatch(error)) IN
       [reg |-> R1,
        call |-> [cl EXCEPT !.pc = "markFailed", !.lastError = error,
                            !.snapshot = R1.jobs[id]]]

\* executeDownloadCore, taken as one step, returned a complete result or
\* threw: markJobCompleted or markJobFailed up to the await in persistJob, or
\* all of it when the job is gone or persistJob is throttled (less than
\* PERSIST_INTERVAL_MS since the job's last persist)
RunReturns(id, complete, throttled) ==
  LET cl == calls[id] IN
  /\ cl.kind = "job" /\ cl.pc = "validate" /\ cl.outcome = "pending"
  /\ IF complete
       THEN IF jobs[id].status = "none" \/ throttled
              THEN /\ SetReg(markJobCompleted(Reg, id))
                   /\ calls' = [calls EXCEPT ![id] =
                                  [cl EXCEPT !.pc = "done", !.outcome = "ok"]]
              ELSE LET R1 == updateJob(Reg, id, CompletedPatch) IN
                   /\ SetReg(R1)
                   /\ calls' = [calls EXCEPT ![id] =
                                  [cl EXCEPT !.pc = "markCompleted",
                                             !.outcome = "ok",
                                             !.snapshot = R1.jobs[id]]]
       ELSE LET r == catchMarkFailed(Reg, [cl EXCEPT !.outcome = "error"], id,
                                     IF cl.aborted THEN "Download aborted"
                                     ELSE "Download failed", throttled)
            IN SetReg(r.reg) /\ calls' = [calls EXCEPT ![id] = r.call]
  /\ UNCHANGED <<nextId, quotaCache, config, qlog, pool, gw, resolver,
                 jobCache, jobIndex, media, transcoder, tracked, userIndex, snap>>

\* db.setCache of persistJob returned or rejected.  In markJobCompleted a
\* rejection reaches the catch of runDownloadJob; in markJobFailed it ends
\* runDownloadJob with the controller kept and no cleanup scheduled
PersistReturns(id, rejected, throttled) ==
  LET cl == calls[id] IN
  /\ cl.kind = "job" /\ cl.pc \in {"markCompleted", "markFailed"}
  /\ jobCache' = IF rejected THEN jobCache
                 ELSE [jobCache EXCEPT ![id] = cl.snapshot]
  /\ IF ~rejected
       THEN /\ SetReg(afterUpdate(Reg, id))
            /\ calls' = [calls EXCEPT ![id] =
                           [cl EXCEPT !.pc = "done", !.snapshot = NoJob]]
     ELSE IF cl.pc = "markCompleted"
       THEN LET r == catchMarkFailed(Reg, [cl EXCEPT !.snapshot = NoJob], id,
                                     "Cache write failed", throttled)
            IN SetReg(r.reg) /\ calls' = [calls EXCEPT ![id] = r.call]
     ELSE /\ UNCHANGED registry
          /\ calls' = [calls EXCEPT ![id] =
                         [cl EXCEPT !.pc = "done", !.snapshot = NoJob]]
  /\ UNCHANGED <<nextId, quotaCache, config, qlog, pool, gw, resolver,
                 jobIndex, media, transcoder, tracked, userIndex, snap>>

\* ------------------------------------------------------ segment fetcher pool

\* A playlist as its lines, each line by what the scan of
\* downloadHlsSegmentsParallel makes of it: "KEY" is an #EXT-X-KEY with a
\* method and a URI and no KEYFORMAT or KEYFORMAT identity, "KEYFMT" one with
\* another KEYFORMAT, "SEG" a line that is no tag
TagKinds == {"BYTERANGE", "PART", "PRELOAD", "KEY", "KEYFMT", "MAP"}

RECURSIVE TagSeqs(_)
TagSeqs(n) ==
  IF n = 0 THEN {<<>>}
  ELSE TagSeqs(n - 1)
         \cup {Append(t, k) : t \in {q \in TagSeqs(n - 1) : Len(q) = n - 1},
                              k \in TagKinds}

RECURSIVE Body(_, _)
Body(n, extinf) ==
  IF n = 0 THEN <<>>
  ELSE Body(n - 1, extinf) \o (IF extinf THEN <<"EXTINF", "SEG">> ELSE <<"SEG">>)

Playlists ==
  {tags \o Body(n, extinf) \o (IF endlist THEN <<"ENDLIST">> ELSE <<>>) :
     tags \in TagSeqs(MaxTags), n \in 0..MaxSegs, extinf \in BOOLEAN,
     endlist \in BOOLEAN}

Has(content, kind) == \E i \in DOMAIN content : content[i] = kind
Lines(content, kind) == Cardinality({i \in DOMAIN content : content[i] = kind})

\* isVodPlaylist, hasMediaSegments
isVodPlaylist(content) == Has(content, "ENDLIST")
hasMediaSegments(content) == Has(content, "EXTINF")

NoScan == [declined |-> FALSE, hasByterange |-> FALSE, hasPartial |-> FALSE,
           segments |-> 0, keys |-> 0, maps |-> 0]

\* The scan loop over the lines from line i on: a foreign KEYFORMAT returns
\* null at once; keyMap and mapMap hold each URI once (every KEY line of a
\* playlist here has the same URI, every MAP line too)
RECURSIVE scan(_, _, _)
scan(content, i, acc) ==
  IF i > Len(content) THEN acc
  ELSE CASE content[i] = "BYTERANGE" ->
              scan(content, i + 1, [acc EXCEPT !.hasByterange = TRUE])
         [] content[i] \in {"PART", "PRELOAD"} ->
              scan(content, i + 1, [acc EXCEPT !.hasPartial = TRUE])
         [] content[i] = "KEYFMT" -> [acc EXCEPT !.declined = TRUE]
         [] content[i] = "KEY" -> scan(content, i + 1, [acc EXCEPT !.keys = 1])
         [] content[i] = "MAP" -> scan(content, i + 1, [acc EXCEPT !.maps = 1])
         [] content[i] = "SEG" ->
              scan(content, i + 1, [acc EXCEPT !.segments = @ + 1])
         [] OTHER -> scan(content, i + 1, acc)

\* Variant of the eligibility test without the byte-range and partial test
poolDeclinesKeepsByterange(content) ==
  \/ ~isVodPlaylist(content) \/ ~hasMediaSegments(content)
  \/ scan(content, 1, NoScan).declined
  \/ scan(content, 1, NoScan).segments < DEFAULT_SEGMENT_MIN_COUNT

\* downloadHlsSegmentsParallel returns null before its first await
poolDeclines(content) ==
  LET sc == scan(content, 1, NoScan) IN
  \/ ~isVodPlaylist(content) \/ ~hasMediaSegments(content)
  \/ sc.declined
  \/ sc.hasByterange \/ sc.hasPartial
  \/ sc.segments < DEFAULT_SEGMENT_MIN_COUNT

\* The downloads of a pool: thread 0 is the loop over the keys and maps,
\* threads 1..concurrency are the workers
Threads == 0..MaxConcurrency
NoThread == [pc |-> "none", index |-> 0, attempt |-> 0]

\* fetches is 1 once a fetch was issued; claims and downloaded count, per
\* segment index, the workers that claimed it and the files written for it;
\* abortedAt is the pool's pc when the signal was raised ("": not raised);
\* caller is what runAttempt made of the pool's end
NoPool == [pc |-> "idle", content |-> <<>>, todo |-> 0, result |-> "none",
           dirs |-> 0, fetches |-> 0, files |-> 0, segs |-> 0,
           concurrency |-> 0, retries |-> 0, nextIndex |-> 1,
           th |-> [t \in Threads |-> NoThread],
           claims |-> [i \in 1..MaxSegs |-> 0],
           downloaded |-> [i \in 1..MaxSegs |-> 0],
           abortedAt |-> "", caller |-> "none"]

poolAborted(p) == p.abortedAt # ""

\* The workers made: Math.min(segmentConcurrency, segments.length)
poolWorkers(p) == 1..(IF p.concurrency < p.segs THEN p.concurrency ELSE p.segs)

\* A thread throws: the first error ends the pool operation (the for loop
\* over keys and maps, or Promise.all); the other workers run on
throw(p, t, error) ==
  IF p.pc \in {"keys", "workers"}
    THEN [p EXCEPT !.th[t].pc = "thrown", !.pc = "done", !.result = error]
    ELSE [p EXCEPT !.th[t].pc = "thrown"]

\* Variant of the claim that leaves nextIndex as it is
claimKeepsIndex(p, t) ==
  IF p.nextIndex > p.segs THEN [p EXCEPT !.th[t].pc = "returned"]
  ELSE IF poolAborted(p) THEN throw(p, t, "Download aborted")
  ELSE [p EXCEPT !.th[t] = [pc |-> "fetch", index |-> p.nextIndex,
                            attempt |-> 0],
                 !.claims[p.nextIndex] = @ + 1, !.fetches = 1]

\* The head of a worker's loop to its await: the loop test, the signal
\* test, the claim of nextIndex and the first fetch of that segment
claim(p, t) ==
  IF p.nextIndex > p.segs THEN [p EXCEPT !.th[t].pc = "returned"]
  ELSE IF poolAborted(p) THEN throw(p, t, "Download aborted")
  ELSE [p EXCEPT !.th[t] = [pc |-> "fetch", index |-> p.nextIndex,
                            attempt |-> 0],
                 !.nextIndex = @ + 1,
                 !.claims[p.nextIndex] = @ + 1, !.fetches = 1]

\* new Array(...).map(async ...): every worker runs to its first await
RECURSIVE spawnWorkers(_, _)
spawnWorkers(p, t) ==
  IF t \notin poolWorkers(p) THEN p
  ELSE spawnWorkers(claim(p, t), t + 1)

\* Promise.all(workers) resolves when every worker has returned
joinWorkers(p) ==
  IF p.pc = "workers" /\ \A t \in poolWorkers(p) : p.th[t].pc = "returned"
    THEN [p EXCEPT !.pc = "rewrite"]
    ELSE p

\* The loop over keys and maps starts its next download, or is over and the
\* workers are made
nextResource(p) ==
  IF p.th[0].index < p.todo
    THEN [p EXCEPT !.pc = "keys",
                   !.th[0] = [pc |-> "fetch", index |-> p.th[0].index + 1,
                              attempt |-> 0],
                   !.fetches = 1]
    ELSE joinWorkers(spawnWorkers([p EXCEPT !.pc = "workers",
                                            !.th[0].pc = "returned"], 1))

\* Variant of the catch that allows one more try
failedOneMoreTry(p, t) ==
  IF poolAborted(p) THEN throw(p, t, "Download aborted")
  ELSE IF p.th[t].attempt > p.retries
    THEN throw(p, t, "Segment download failed")
  ELSE [p EXCEPT !.th[t].pc = "sleep", !.th[t].attempt = @ + 1]

\* The catch of downloadFileWithRetry
failed(p, t) ==
  IF poolAborted(p) THEN throw(p, t, "Download aborted")
  ELSE IF p.th[t].attempt >= p.retries
    THEN throw(p, t, "Segment download failed")
  ELSE [p EXCEPT !.th[t].pc = "sleep", !.th[t].attempt = @ + 1]

\* downloadHlsSegmentsParallel is called: it declines, or its first
\* fs.mkdir is in flight with the keys, maps and segments to download
PoolStart(content, concurrency, retries) ==
  /\ pool.pc = "idle"
  /\ pool' = IF poolDeclines(content)
               THEN [pool EXCEPT !.pc = "done", !.content = content,
                                 !.result = "null"]
               ELSE LET sc == scan(content, 1, NoScan) IN
                    [pool EXCEPT !.pc = "mkdir", !.content = content,
                                 !.todo = sc.keys + sc.maps,
                                 !.segs = sc.segments,
                                 !.concurrency = concurrency,
                                 !.retries = retries]
  /\ UNCHANGED <<registry, nextId, calls, quotaCache, config, qlog, gw,
                 resolver, jobCache, jobIndex, media, transcoder, tracked, userIndex, snap>>

\* The directories segments, keys and maps are made; the first download
\* starts
PoolMkdir ==
  /\ pool.pc = "mkdir"
  /\ pool' = nextResource(
               [pool EXCEPT !.dirs = 1 + scan(pool.content, 1, NoScan).keys
                                       + scan(pool.content, 1, NoScan).maps])
  /\ UNCHANGED <<registry, nextId, calls, quotaCache, config, qlog, gw,
                 resolver, jobCache, jobIndex, media, transcoder, tracked, userIndex, snap>>

\* fetchWithTimeout of thread t returned a response that is ok, or failed:
\* the fetch of a raised signal always fails
PoolFetchReturns(t, ok) ==
  /\ pool.th[t].pc = "fetch"
  /\ ok => ~poolAborted(pool)
  /\ pool' = IF ok THEN [pool EXCEPT !.th[t].pc = "body"]
             ELSE failed(pool, t)
  /\ UNCHANGED <<registry, nextId, calls, quotaCache, config, qlog, gw,
                 resolver, jobCache, jobIndex, media, transcoder, tracked, userIndex, snap>>

\* writeResponseToFile of thread t returned or failed; the signal no longer
\* reaches a download whose response has arrived
PoolBodyReturns(t, ok) ==
  /\ pool.th[t].pc = "body"
  /\ pool' =
       IF ~ok THEN failed(pool, t)
       ELSE IF t = 0 THEN nextResource([pool EXCEPT !.files = @ + 1])
       ELSE joinWorkers(claim([pool EXCEPT
                                 !.files = @ + 1,
                                 !.downloaded[pool.th[t].index] = @ + 1], t))
  /\ UNCHANGED <<registry, nextId, calls, quotaCache, config, qlog, gw,
                 resolver, jobCache, jobIndex, media, transcoder, tracked, userIndex, snap>>

\* The pause of 400 ms * attempt is over: the next try
PoolSleepEnds(t) ==
  /\ pool.th[t].pc = "sleep"
  /\ pool' = [pool EXCEPT !.th[t].pc = "fetch", !.fetches = 1]
  /\ UNCHANGED <<registry, nextId, calls, quotaCache, config, qlog, gw,
                 resolver, jobCache, jobIndex, media, transcoder, tracked, userIndex, snap>>

\* fs.writeFile of the rewritten playlist: the pool returns its path
PoolRewrite ==
  /\ pool.pc = "rewrite"
  /\ pool' = [pool EXCEPT !.files = @ + 1, !.pc = "done",
                !.result = "playlist"]
  /\ UNCHANGED <<registry, nextId, calls, quotaCache, config, qlog, gw,
                 resolver, jobCache, jobIndex, media, transcoder, tracked, userIndex, snap>>

\* The cancellation signal is raised
PoolAbort ==
  /\ ~poolAborted(pool)
  /\ pool' = [pool EXCEPT !.abortedAt = pool.pc]
  /\ UNCHANGED <<registry, nextId, calls, quotaCache, config, qlog, gw,
                 resolver, jobCache, jobIndex, media, transcoder, tracked, userIndex, snap>>

\* runAttempt after the pool: the local playlist is the input, or, when the
\* pool declined or threw, playlist.m3u8 is written for the same attempt
PoolCaller ==
  /\ pool.pc = "done" /\ pool.caller = "none"
  /\ pool' = [pool EXCEPT !.caller = IF pool.result = "playlist"
                                       THEN "local" ELSE "manifest"]
  /\ UNCHANGED <<registry, nextId, calls, quotaCache, config, qlog, gw,
                 resolver, jobCache, jobIndex, media, transcoder, tracked, userIndex, snap>>

\* ------------------------------------------------------------ media playlist resolution

Urls == {"a", "b", "c", "d"}

\* parseVariantStreams: the variant streams of a playlist, in file order
RECURSIVE VariantSeqs(_, _)
VariantSeqs(n, variants) ==
  IF n = 0 THEN {<<>>}
  ELSE VariantSeqs(n - 1, variants)
         \cup {Append(q, v) :
                 q \in {r \in VariantSeqs(n - 1, variants) : Len(r) = n - 1},
                 v \in variants}

\* A fetched playlist: response.url, its variant streams, and what
\* isLikelyPlayableMediaPlaylist makes of its content
PlaylistResults(urls, bandwidths) ==
  [url : urls,
   variants : VariantSeqs(MaxVariants, [url : urls, bandwidth : bandwidths]),
   playable : BOOLEAN]

NoPlaylist == [url |-> "", variants |-> <<>>, playable |-> FALSE]

\* levels counts the playlists whose variants were followed; pos is the
\* place, in the sorted variants of current, of the variant whose fetch is
\* in flight or was the last to arrive
NoMedia == [pc |-> "idle", current |-> NoPlaylist, visited |-> {},
            depth |-> 0, pos |-> 0, fallback |-> NoPlaylist, fetches |-> 0,
            levels |-> 0, result |-> NoPlaylist, error |-> FALSE]

\* variants.sort((a, b) => b.bandwidth - a.bandwidth): stable, by insertion
RECURSIVE insertVariant(_, _)
insertVariant(sorted, v) ==
  IF sorted = <<>> THEN <<v>>
  ELSE IF Head(sorted).bandwidth >= v.bandwidth
    THEN <<Head(sorted)>> \o insertVariant(Tail(sorted), v)
    ELSE <<v>> \o sorted

RECURSIVE sortFrom(_, _, _)
sortFrom(variants, i, sorted) ==
  IF i > Len(variants) THEN sorted
  ELSE sortFrom(variants, i + 1, insertVariant(sorted, variants[i]))

\* Variant that leaves the variants in file order
sortVariantsNot(variants) == variants

sortVariants(variants) == sortFrom(variants, 1, <<>>)

returns(m, playlist) == [m EXCEPT !.pc = "done", !.result = playlist]

\* Variant of the test of the visited set at the head of a level
seenNever(m) == FALSE

\* visited.has(current.url)
seen(m) == m.current.url \in m.visited

\* The for loop over the levels from its head, and the loop over the sorted
\* variants from the one after pos, each to the next await fetchPlaylist or
\* return
RECURSIVE levelHead(_)
RECURSIVE nextVariant(_)
levelHead(m) ==
  IF m.depth >= maxDepth THEN returns(m, m.current)
  ELSE IF seen(m) THEN returns(m, m.current)
  ELSE IF m.current.variants = <<>>
    THEN returns([m EXCEPT !.visited = @ \cup {m.current.url}], m.current)
  ELSE nextVariant([m EXCEPT !.visited = @ \cup {m.current.url},
                             !.levels = @ + 1,
                             !.pos = 0, !.fallback = NoPlaylist])

nextVariant(m) ==
  LET sorted == sortVariants(m.current.variants) IN
  IF m.pos >= Len(sorted)
    THEN IF m.fallback = NoPlaylist THEN returns(m, m.current)
         ELSE levelHead([m EXCEPT !.current = m.fallback, !.depth = @ + 1,
                                  !.pos = 0, !.fallback = NoPlaylist])
  ELSE IF sorted[m.pos + 1].url \in m.visited
    THEN nextVariant([m EXCEPT !.pos = @ + 1])
  ELSE [m EXCEPT !.pc = "variant", !.pos = @ + 1, !.fetches = @ + 1]

\* The variant whose fetch is in flight
asked(m) == sortVariants(m.current.variants)[m.pos]

\* resolveMediaPlaylist is called: the fetch of initialUrl is in flight
ResolveStart ==
  /\ media.pc = "idle"
  /\ media' = [media EXCEPT !.pc = "initial", !.fetches = 1]
  /\ UNCHANGED <<registry, nextId, calls, quotaCache, config, qlog, pool, gw,
                 resolver, jobCache, jobIndex,
                 transcoder, tracked, userIndex, snap>>

\* The playlist of initialUrl has arrived (response.url is its address
\* after redirects)
ResolveInitial(response) ==
  /\ media.pc = "initial"
  /\ media' = levelHead([media EXCEPT !.current = response])
  /\ UNCHANGED <<registry, nextId, calls, quotaCache, config, qlog, pool, gw,
                 resolver, jobCache, jobIndex,
                 transcoder, tracked, userIndex, snap>>

\* The playlist of a variant has arrived
ResolveVariant(candidate) ==
  /\ media.pc = "variant"
  /\ media' =
       LET m == IF media.fallback = NoPlaylist
                  THEN [media EXCEPT !.fallback = candidate]
                  ELSE media IN
       IF candidate.playable THEN returns(m, candidate)
       ELSE nextVariant(m)
  /\ UNCHANGED <<registry, nextId, calls, quotaCache, config, qlog, pool, gw,
                 resolver, jobCache, jobIndex,
                 transcoder, tracked, userIndex, snap>>

\* fetchPlaylist throws: the fetch failed or its status is not ok
ResolveFails ==
  /\ media.pc \in {"initial", "variant"}
  /\ media' = [media EXCEPT !.pc = "done", !.error = TRUE]
  /\ UNCHANGED <<registry, nextId, calls, quotaCache, config, qlog, pool, gw,
                 resolver, jobCache, jobIndex,
                 transcoder, tracked, userIndex, snap>>

\* ------------------------------------------------------------ proxy gateway

\* Target hosts as targetUrl.hostname gives them: the hostname of an IPv6
\* URL keeps its brackets, so http://[::1]/ has hostname "[::1]"
Hosts == {"cdn.example.com", "localhost", "127.0.0.1", "10.0.0.1",
          "192.168.1.5", "[::1]"}

\* The gateway's own host, from the request's Host header
requestHost == "192.168.1.5"

\* Requests of GET /api/download/proxy: the target (no u/url parameter, one
\* that new URL rejects, or a URL with its scheme, host and path), and the
\* token parameter; image: the path ends in .jpg .jpeg .png .gif .webp .bmp
\* .svg or .ico
Tokens == {"t1", "t2"}
GwRequests ==
  [url : {"missing", "invalid", "ok"}, token : Tokens \cup {"none"},
   scheme : {"http", "https", "ftp"}, host : Hosts, image : BOOLEAN]

\* What the cache holds under download-proxy:<token>: an object with its
\* allowImageSegments and allowEncryptedImageSegments flags, or a truthy
\* value that is no object
Contexts ==
  [object : {TRUE}, img : BOOLEAN, enc : BOOLEAN]
    \cup {[object |-> FALSE, img |-> FALSE, enc |-> FALSE]}

\* Content-Type headers of an upstream response ("": none)
ContentTypes == {"text/html; charset=utf-8", "application/json", "image/png",
                 "image/jpeg", "video/mp2t", ""}

\* lowerType.startsWith('text/html') || startsWith('application/json')
isHtmlOrJson(contentType) ==
  contentType \in {"text/html; charset=utf-8", "application/json"}

\* lowerType.startsWith('image/')
isImageType(contentType) == contentType \in {"image/png", "image/jpeg"}

\* Upstream responses: the status after redirects, the content type, and
\* whether isLikelyMediaBytes holds of the first chunk of the body
Upstreams == [status : {200, 206, 404, 500}, contentType : ContentTypes,
              media : BOOLEAN]

NoUpstream == [status |-> 0, contentType |-> "", media |-> FALSE]

NoRequest == [url |-> "missing", token |-> "none", scheme |-> "http",
              host |-> "cdn.example.com", image |-> FALSE]

NoGw == [store |-> [t \in Tokens |-> <<>>], pc |-> "idle", req |-> NoRequest,
         tokenValue |-> <<>>, status |-> 0, message |-> "", fetches |-> 0,
         response |-> NoUpstream, body |-> "none", contentType |-> ""]

\* An answer the gateway writes itself: NextResponse.json or a text/plain
\* NextResponse
answer(g, status, message) ==
  [g EXCEPT !.pc = "done", !.status = status, !.message = message,
            !.body = "error",
            !.contentType = IF status \in {422, 502} \/ g.pc \in {"fetch", "peek"}
                              THEN "text/plain" ELSE "application/json"]

\* Variant of the outgoing content type that keeps the upstream's
passedContentTypeKept(contentType) == contentType

\* The content type of a response that passes the body on
passedContentType(contentType) ==
  IF isImageType(contentType) THEN "application/octet-stream"
  ELSE contentType

\* return new Response(body, {status: response.status, headers: outHeaders})
passOn(g) ==
  [g EXCEPT !.pc = "done", !.status = g.response.status, !.message = "",
            !.body = "upstream",
            !.contentType = passedContentType(g.response.contentType)]

\* Variant of the token test that lets every lookup result pass
tokenMissingNever(tokenValue) == FALSE

\* if (!tokenValue)
tokenMissing(tokenValue) == tokenValue = <<>>

\* allowImageSegments = tokenData?.allowImageSegments === true
allowImageSegments(tokenValue) ==
  tokenValue # <<>> /\ tokenValue[1].object /\ tokenValue[1].img

\* allowEncryptedImageSegments = tokenData?.allowEncryptedImageSegments
\* === true
allowEncryptedImageSegments(tokenValue) ==
  tokenValue # <<>> /\ tokenValue[1].object /\ tokenValue[1].enc

\* isPrivateHost: 'localhost', '::1', or one of the prefixes 127. 0. 10.
\* 172.16-31. 192.168.
isPrivateHost(host) ==
  \/ host = "localhost" \/ host = "::1"
  \/ host \in {"127.0.0.1", "10.0.0.1", "192.168.1.5"}

\* isPrivateHost(targetUrl.hostname) && hostname !== requestHost
hostBlocked(req) == isPrivateHost(req.host) /\ req.host # requestHost

\* Variant of the image test that rejects nothing
imageRejectedNever(req, tokenValue) == FALSE

\* !allowImageSegments && the path ends in an image extension
imageRejected(req, tokenValue) ==
  ~allowImageSegments(tokenValue) /\ req.image

\* The driver stores a proxy token with its context (fresh per attempt)
GwStore(t, ctx) ==
  /\ gw.store[t] = <<>>
  /\ gw.pc = "idle"
  /\ gw' = [gw EXCEPT !.store[t] = <<ctx>>]
  /\ UNCHANGED <<registry, nextId, calls, quotaCache, config, qlog, pool, resolver, jobCache, jobIndex, media, transcoder, tracked, userIndex, snap>>

\* The token's TTL ends
GwExpire(t) ==
  /\ gw.store[t] # <<>>
  /\ gw' = [gw EXCEPT !.store[t] = <<>>]
  /\ UNCHANGED <<registry, nextId, calls, quotaCache, config, qlog, pool, resolver, jobCache, jobIndex, media, transcoder, tracked, userIndex, snap>>

\* GET to its first await: the parameter checks, then db.getCache
GwRequest(req) ==
  /\ gw.pc = "idle"
  /\ gw' = LET g == [gw EXCEPT !.req = req] IN
           IF req.url = "missing" THEN answer(g, 400, "Missing url")
           ELSE IF req.token = "none" THEN answer(g, 403, "Unauthorized")
           ELSE [g EXCEPT !.pc = "lookup"]
  /\ UNCHANGED <<registry, nextId, calls, quotaCache, config, qlog, pool, resolver, jobCache, jobIndex, media, transcoder, tracked, userIndex, snap>>

\* db.getCache returned: the token, url, scheme, host and extension checks,
\* then the upstream fetch
GwLookup ==
  LET v == gw.store[gw.req.token]
      g == [gw EXCEPT !.tokenValue = v]
  IN
  /\ gw.pc = "lookup"
  /\ gw' = IF tokenMissing(v) THEN answer(g, 403, "Unauthorized")
           ELSE IF gw.req.url = "invalid" THEN answer(g, 400, "Invalid url")
           ELSE IF gw.req.scheme \notin {"http", "https"}
             THEN answer(g, 400, "Unsupported protocol")
           ELSE IF hostBlocked(gw.req) THEN answer(g, 403, "Blocked host")
           ELSE IF imageRejected(gw.req, v)
             THEN answer(g, 422, "Unsupported segment type")
           ELSE [g EXCEPT !.pc = "fetch", !.fetches = @ + 1]
  /\ UNCHANGED <<registry, nextId, calls, quotaCache, config, qlog, pool, resolver, jobCache, jobIndex, media, transcoder, tracked, userIndex, snap>>

\* fetch returned: an upstream error, a refused content type, the peek at
\* an image body that is not marked encrypted, or the body passed on
GwUpstream(response) ==
  LET g == [gw EXCEPT !.response = response] IN
  /\ gw.pc = "fetch"
  /\ gw' =
       IF response.status >= 300
         THEN answer(g, IF response.status >= 500 THEN 502
                        ELSE response.status, "HTTP Error")
       ELSE IF isHtmlOrJson(response.contentType)
         THEN answer(g, 502, "Unexpected segment content-type")
       ELSE IF isImageType(response.contentType)
         THEN IF ~allowImageSegments(gw.tokenValue)
                THEN answer(g, 502, "Unexpected segment content-type")
              ELSE IF ~allowEncryptedImageSegments(gw.tokenValue)
                THEN [g EXCEPT !.pc = "peek"]
              ELSE passOn(g)
       ELSE passOn(g)
  /\ UNCHANGED <<registry, nextId, calls, quotaCache, config, qlog, pool, resolver, jobCache, jobIndex, media, transcoder, tracked, userIndex, snap>>

\* peekStream returned the first chunk
GwPeek ==
  /\ gw.pc = "peek"
  /\ gw' = IF ~gw.response.media
             THEN answer(gw, 502, "Unexpected segment content-type")
             ELSE passOn(gw)
  /\ UNCHANGED <<registry, nextId, calls, quotaCache, config, qlog, pool, resolver, jobCache, jobIndex, media, transcoder, tracked, userIndex, snap>>

\* ---------------------------------------------------------- playlist repair

\* Lines of a playlist under repair (it looks like M3U8): "SEG" a segment
\* line with a media extension, "IMG" one with an extension of
\* INVALID_SEGMENT_EXTENSIONS, "IMGX" one whose URL has such an extension
\* only once new URL has resolved it (a tab inside the extension), so that
\* getSegmentExtension does not list it, "TAG" any other tag
LineKinds == {"EXTINF", "BYTERANGE", "SEG", "IMG", "IMGX", "KEY", "TAG"}

\* "IMG" stands for the extension .jpg; "PNG" is a segment line with another
\* extension of INVALID_SEGMENT_EXTENSIONS; "TS", "M4S" and "MP4" are segment
\* lines that carry a fallback extension
InvalidExtensions == {"IMG", "PNG"}

\* SEGMENT_EXTENSION_FALLBACKS, the same list for every extension
FallbackExtensions == <<"TS", "M4S", "MP4">>

RECURSIVE LineSeqs(_)
LineSeqs(n) ==
  IF n = 0 THEN {<<>>}
  ELSE LineSeqs(n - 1)
         \cup {Append(t, k) : t \in {q \in LineSeqs(n - 1) : Len(q) = n - 1},
                              k \in LineKinds}

\* collectInvalidSegmentCandidates(content).length > 0
hasInvalidCandidates(content) ==
  \E i \in DOMAIN content : content[i] \in InvalidExtensions

hasEncryptionOrMap(content) ==
  Has(content, "KEY") \/ Has(content, "KEYFMT") \/ Has(content, "MAP")

\* findInvalidSegmentLine(content) is not null
findInvalidSegmentLine(content) ==
  /\ hasMediaSegments(content)
  /\ \E i \in DOMAIN content : content[i] \in InvalidExtensions \cup {"IMGX"}

\* rewriteSegmentExtensions with the mapping { [fromExt]: toExt }
rewriteSegmentExtensions(content, fromExt, toExt) ==
  [i \in DOMAIN content |-> IF content[i] = fromExt THEN toExt
                            ELSE content[i]]

\* candidates[0].ext: the extension of the first invalid segment line
primaryExt(content) ==
  content[CHOOSE i \in DOMAIN content :
            /\ content[i] \in InvalidExtensions
            /\ \A j \in 1..(i - 1) : content[j] \notin InvalidExtensions]

\* sample.length: the candidates of the primary extension, at most
\* MAX_SEGMENT_PROBES of them (every segment line here has its own URL)
sampleLength(content) ==
  IF Lines(content, primaryExt(content)) < MAX_SEGMENT_PROBES
    THEN Lines(content, primaryExt(content)) ELSE MAX_SEGMENT_PROBES

\* What the probes of one fallback extension answer: the place in the
\* sample of the first candidate that does not probe positive, 0 when
\* every candidate does
Probes == [1..Len(FallbackExtensions) -> 0..MAX_SEGMENT_PROBES]

\* Variant that asks the first sampled candidate only
allProbedOkFirstOnly(content, firstFail) == firstFail # 1

\* okCount === sample.length && okCount > 0 after the loop over the sample
allProbedOk(content, firstFail) ==
  /\ sampleLength(content) > 0
  /\ firstFail = 0 \/ firstFail > sampleLength(content)

\* The loop over the fallback extensions from the f-th on; <<>> is null
RECURSIVE tryFallbacks(_, _, _)
tryFallbacks(content, probes, f) ==
  IF f > Len(FallbackExtensions) THEN <<>>
  ELSE LET rewritten == rewriteSegmentExtensions(
                          content, primaryExt(content), FallbackExtensions[f])
       IN IF /\ allProbedOk(content, probes[f])
             /\ hasMediaSegments(rewritten)
             /\ ~findInvalidSegmentLine(rewritten)
            THEN <<rewritten>>
            ELSE tryFallbacks(content, probes, f + 1)

\* tryRewriteImageSegments, given the answers of the probes
tryRewriteImageSegments(content, probes) ==
  IF ~hasInvalidCandidates(content) THEN <<>>
  ELSE tryFallbacks(content, probes, 1)

\* The loop of filterInvalidSegments from line i on
RECURSIVE filterLines(_, _, _, _)
filterLines(content, i, pendingSegmentTags, acc) ==
  IF i > Len(content) THEN acc
  ELSE CASE content[i] \in {"EXTINF", "BYTERANGE"} ->
              filterLines(content, i + 1,
                          Append(pendingSegmentTags, content[i]), acc)
         [] content[i] \in InvalidExtensions \cup {"IMGX"} ->
              filterLines(content, i + 1, <<>>,
                          [acc EXCEPT !.removed = @ + 1])
         [] OTHER ->
              filterLines(content, i + 1, <<>>,
                [acc EXCEPT !.content =
                   (@ \o pendingSegmentTags) \o <<content[i]>>])

filterInvalidSegments(content) ==
  IF ~hasMediaSegments(content) THEN [content |-> content, removed |-> 0]
  ELSE filterLines(content, 1, <<>>, [content |-> <<>>, removed |-> 0])

\* probes holds the answers a lone call of tryRewriteImageSegments was given
NoResolver == [pc |-> "idle", content |-> <<>>, manifest |-> <<>>,
               probes |-> <<>>, removed |-> 0,
               proxyToken |-> FALSE, allowImageSegments |-> FALSE,
               probe |-> "none", rewrite |-> "none", error |-> ""]

\* From invalidSegment on: the filter unless allowImageSegments, then the
\* sanitizer (it keeps every line) and the test for media segments
finishRepair(r) ==
  LET filtered == filterInvalidSegments(r.manifest) IN
  IF ~r.allowImageSegments /\ findInvalidSegmentLine(r.manifest)
    THEN IF filtered.removed > 0 /\ hasMediaSegments(filtered.content)
           THEN [r EXCEPT !.pc = "done", !.manifest = filtered.content]
           ELSE [r EXCEPT !.pc = "done",
                   !.error = "Playlist contains non-media segment"]
    ELSE IF ~hasMediaSegments(r.manifest)
      THEN [r EXCEPT !.pc = "done",
              !.error = "No playable media segments found in playlist"]
      ELSE [r EXCEPT !.pc = "done"]

\* After the probes: the token is stored again when image segments are
\* allowed and the attempt has a proxy token
afterProbes(r) ==
  IF r.allowImageSegments /\ r.proxyToken THEN [r EXCEPT !.pc = "store"]
  ELSE finishRepair(r)

\* resolveMediaPlaylist returned content: the candidates and the
\* encryption test, to the first probe
RepairStart(content, proxyToken) ==
  /\ resolver.pc = "idle"
  /\ resolver' =
       LET r == [NoResolver EXCEPT !.content = content, !.manifest = content,
                                   !.proxyToken = proxyToken]
       IN IF ~hasInvalidCandidates(content) THEN afterProbes(r)
          ELSE IF hasEncryptionOrMap(content)
            THEN afterProbes([r EXCEPT !.allowImageSegments = TRUE])
          ELSE [r EXCEPT !.pc = "probe"]
  /\ UNCHANGED <<registry, nextId, calls, quotaCache, config, qlog, pool, gw, jobCache, jobIndex, media, transcoder, tracked, userIndex, snap>>

\* areImageSegmentsMedia returned
RepairProbe(imagesAreMedia) ==
  /\ resolver.pc = "probe"
  /\ resolver' =
       IF imagesAreMedia
         THEN afterProbes([resolver EXCEPT !.probe = "ok",
                                           !.allowImageSegments = TRUE])
         ELSE [resolver EXCEPT !.probe = "failed", !.pc = "rewrite"]
  /\ UNCHANGED <<registry, nextId, calls, quotaCache, config, qlog, pool, gw, jobCache, jobIndex, media, transcoder, tracked, userIndex, snap>>

\* tryRewriteImageSegments returned
RepairRewrite(probes) ==
  LET rewritten == tryRewriteImageSegments(resolver.manifest, probes) IN
  /\ resolver.pc = "rewrite"
  /\ resolver' =
       IF rewritten # <<>>
         THEN afterProbes([resolver EXCEPT
                !.rewrite = "ok", !.manifest = rewritten[1],
                !.allowImageSegments = findInvalidSegmentLine(rewritten[1])])
         ELSE afterProbes([resolver EXCEPT !.rewrite = "failed",
                                           !.allowImageSegments = TRUE])
  /\ UNCHANGED <<registry, nextId, calls, quotaCache, config, qlog, pool, gw, jobCache, jobIndex, media, transcoder, tracked, userIndex, snap>>

\* tryRewriteImageSegments is called on its own and returns
RewriteCall(content, probes) ==
  LET rewritten == tryRewriteImageSegments(content, probes) IN
  /\ resolver.pc = "idle"
  /\ resolver' = [NoResolver EXCEPT
                    !.pc = "done", !.content = content, !.probes = probes,
                    !.manifest = IF rewritten = <<>> THEN content
                                 ELSE rewritten[1],
                    !.rewrite = IF rewritten = <<>> THEN "failed" ELSE "ok"]
  /\ UNCHANGED <<registry, nextId, calls, quotaCache, config, qlog, pool, gw,
                 jobCache, jobIndex, media, transcoder, tracked, userIndex, snap>>

\* filterInvalidSegments is called on its own and returns
FilterCall(content) ==
  /\ resolver.pc = "idle"
  /\ resolver' = [NoResolver EXCEPT
                    !.pc = "done", !.content = content,
                    !.manifest = filterInvalidSegments(content).content,
                    !.removed = filterInvalidSegments(content).removed]
  /\ UNCHANGED <<registry, nextId, calls, quotaCache, config, qlog, pool, gw,
                 jobCache, jobIndex, media, transcoder, tracked, userIndex, snap>>

\* db.setCache of the token with allowImageSegments returned, or threw: the
\* catch keeps no playlistError and the attempt takes the URL itself
RepairStore ==
  /\ resolver.pc = "store"
  /\ \/ /\ resolver' = finishRepair(resolver)
        /\ gw' = [gw EXCEPT !.store["t1"] =
                    <<[object |-> TRUE, img |-> TRUE,
                       enc |-> /\ hasInvalidCandidates(resolver.content)
                               /\ hasEncryptionOrMap(resolver.content)]>>]
     \/ /\ resolver' = [resolver EXCEPT !.pc = "done", !.manifest = <<>>]
        /\ UNCHANGED gw
  /\ UNCHANGED <<registry, nextId, calls, quotaCache, config, qlog, pool,
                 jobCache, jobIndex, media, transcoder, tracked, userIndex, snap>>

\* ---------------------------------------------------------- specifications

\* The steps of a download between the quota and its end
AttemptStep(c) ==
  \/ Mkdtemp(c) \/ Token(c) \/ Resolve(c) \/ Pool(c) \/ Write(c)
  \/ FfmpegClose(c) \/ CheckOutput(c) \/ Exhausted(c) \/ Rethrow(c)

QuotaStep(c) ==
  \/ QuotaGet(c) \/ QuotaSet(c)
  \/ \E i \in 1..2 : RefundGet(c, i) \/ RefundSet(c, i)

\* ------------------------------------------------- the transcoder's input
\* One line of a media playlist as sanitizeM3U8Content sees it: the tag
\* ("SEG" for a line that does not start with #) and the form of its URI:
\* none, relative to the playlist, absolute http(s), another scheme (skd:,
\* data:), or a Proxy Gateway URL carrying a token.
MaxManifest == 2

UriTags == {"KEY", "MAP", "SESSION-KEY", "MEDIA", "PART", "PRELOAD-HINT"}

ManifestTags == UriTags \cup {"SEG", "EXTINF", "RENDITION-REPORT"}

Uri(scheme, token) == [scheme |-> scheme, token |-> token]

SourceUris == {Uri(s, "none") : s \in {"none", "relative", "http", "https", "skd"}}

ManifestLines ==
  {[tag |-> t, uri |-> u] : t \in ManifestTags, u \in SourceUris}

Manifests == UNION {[1..n -> ManifestLines] : n \in 1..MaxManifest}

\* new URL(uri, baseUrl).toString(): a relative reference takes the scheme
\* of the playlist URL, which fetchPlaylist fetched over http(s)
resolveUri(uri) ==
  IF uri.scheme = "relative" THEN Uri("https", "none") ELSE uri

buildProxyUrl(token) == Uri("proxy", token)

\* the URL of one line after resolution and, with a proxyBase, the rewrite
\* of http: and https: URLs through the gateway
proxied(uri, proxyBase, token) ==
  LET resolved == resolveUri(uri) IN
  IF uri.scheme = "none" THEN uri
  ELSE IF proxyBase /\ resolved.scheme \in {"http", "https"}
       THEN buildProxyUrl(token)
       ELSE resolved

rewriteUriAttributes(line, proxyBase, token) ==
  [line EXCEPT !.uri = proxied(line.uri, proxyBase, token)]

sanitizeLine(line, proxyBase, token) ==
  IF line.tag = "SEG" THEN [line EXCEPT !.uri = proxied(line.uri, proxyBase, token)]
  ELSE IF line.tag \in UriTags THEN rewriteUriAttributes(line, proxyBase, token)
  ELSE line

sanitizeM3U8Content(content, proxyBase, token) ==
  [i \in 1..Len(content) |-> sanitizeLine(content[i], proxyBase, token)]

manifestHasSegments(content) ==
  \E i \in 1..Len(content) : content[i].tag = "EXTINF"

NoTranscoder ==
  [pc |-> "idle", useProxy |-> FALSE, proxyToken |-> "none",
   inputUrl |-> "", manifest |-> <<>>]

\* runAttempt(useProxy) up to the playlist handling: a proxy attempt of an
\* HLS source draws a fresh token and stores its forwarding context
AttemptStart(viaProxy, token) ==
  /\ transcoder.pc = "idle"
  /\ transcoder' = [NoTranscoder EXCEPT !.pc = "playlist",
                      !.useProxy = viaProxy,
                      !.proxyToken = IF viaProxy THEN token ELSE "none",
                      !.inputUrl = "targetUrl"]
  /\ UNCHANGED <<registry, nextId, calls, quotaCache, config, qlog, pool, gw,
                 resolver, jobCache, jobIndex, media, tracked, userIndex,
                 snap>>

\* the playlist handling of runAttempt: contentToSanitize is the playlist
\* after repair and filtering; thrown says whether an await of the try block
\* rejected (the playlist fetch, the probes, the token re-store, writeFile)
\* and parallel whether the segment pool of a direct attempt returned a path
AttemptPlaylist(contentToSanitize, thrown, parallel) ==
  LET t == transcoder
      sanitized == sanitizeM3U8Content(contentToSanitize, t.useProxy,
                                       t.proxyToken)
      playlistContent == IF manifestHasSegments(sanitized) THEN sanitized
                         ELSE contentToSanitize
  IN
  /\ t.pc = "playlist"
  /\ parallel => ~t.useProxy /\ ~thrown
  /\ transcoder' =
       IF thrown THEN [t EXCEPT !.pc = "ffmpeg"]
       ELSE IF ~manifestHasSegments(playlistContent)
       THEN [t EXCEPT !.pc = "failed"]
       ELSE [t EXCEPT !.pc = "ffmpeg",
               !.inputUrl = IF parallel THEN "parallelPlaylistPath"
                            ELSE "playlistPath",
               !.manifest = playlistContent]
  /\ UNCHANGED <<registry, nextId, calls, quotaCache, config, qlog, pool, gw,
                 resolver, jobCache, jobIndex, media, tracked, userIndex,
                 snap>>

\* the attempt is over (the transcoder has exited or the attempt threw)
AttemptEnds ==
  /\ transcoder.pc \in {"ffmpeg", "failed"}
  /\ transcoder' = NoTranscoder
  /\ UNCHANGED <<registry, nextId, calls, quotaCache, config, qlog, pool, gw,
                 resolver, jobCache, jobIndex, media, tracked, userIndex,
                 snap>>

\* ------------------------------------------------ updateJob and progress
\* One job of the registry with the fields updateJob touches.  An optional
\* field is <<>> (undefined) or <<v>>.  A patch is a function from the keys
\* it has to their values; emitProgress gives all five progress keys, the
\* ones it cannot compute with the value undefined.
MaxUpdates == 3

ProgressFields == {"percent", "outTimeMs", "totalDurationMs", "speed", "message"}

JobFields == {"status", "error", "filename", "progress", "updatedAt"}

NoProgress ==
  [percent |-> <<>>, outTimeMs |-> <<>>, totalDurationMs |-> <<>>,
   speed |-> <<>>, message |-> <<>>]

NoEntry ==
  [present |-> FALSE, status |-> "", error |-> <<>>, filename |-> <<>>,
   progress |-> NoProgress, updatedAt |-> 0, returned |-> ""]

\* emitProgress: percent needs expectedDurationMs and lastOutTimeMs > 0
emitProgress(lastOutTimeMs, expectedMs, lastSpeed) ==
  [progress |->
     [percent |-> IF lastOutTimeMs # <<>> /\ expectedMs # <<>>
                  THEN <<50>> ELSE <<>>,
      outTimeMs |-> lastOutTimeMs,
      totalDurationMs |-> expectedMs,
      speed |-> lastSpeed,
      message |-> <<"downloading">>]]

ProgressPatches ==
  {emitProgress(t, d, sp) : t \in {<<>>, <<5>>}, d \in {<<>>, <<10>>},
                            sp \in {<<>>, <<"1x">>}}
    \cup {[progress |-> [message |-> <<m>>]] : m \in {"direct", "proxy", "segments"}}

StatusPatches ==
  {[status |-> "running", progress |-> [message |-> <<"starting">>]],
   [status |-> "failed", error |-> <<"Download failed">>,
    progress |-> [message |-> <<"Download failed">>]],
   [filename |-> <<"out.mp4">>, status |-> "completed",
    progress |-> [message |-> <<"done">>]]}

JobPatches == ProgressPatches \cup StatusPatches

\* { ...job.progress, ...patch.progress }: every own key of the patch,
\* whatever its value, overrides
spread(target, source) ==
  [f \in DOMAIN target |-> IF f \in DOMAIN source THEN source[f] ELSE target[f]]

\* createJob
EntryCreate ==
  /\ ~tracked.present
  /\ tracked' = [NoEntry EXCEPT !.present = TRUE, !.status = "queued",
                            !.progress.message = <<"queued">>]
  /\ UNCHANGED <<registry, nextId, calls, quotaCache, config, qlog, pool, gw,
                 resolver, jobCache, jobIndex, media, transcoder, userIndex,
                 snap>>

\* updateJob(jobId, patch), known saying whether jobs has the id
EntryUpdate(known, patch) ==
  /\ tracked.updatedAt < MaxUpdates
  /\ known => tracked.present
  /\ tracked' =
       IF ~known THEN [tracked EXCEPT !.returned = "null"]
       ELSE LET next == spread(tracked, patch) IN
            [next EXCEPT
               !.progress = IF "progress" \in DOMAIN patch
                            THEN spread(tracked.progress, patch.progress)
                            ELSE tracked.progress,
               !.updatedAt = tracked.updatedAt + 1,
               !.returned = "next"]
  /\ UNCHANGED <<registry, nextId, calls, quotaCache, config, qlog, pool, gw,
                 resolver, jobCache, jobIndex, media, transcoder, userIndex,
                 snap>>

\* cleanupJob
EntryCleanup ==
  /\ tracked.present
  /\ tracked' = NoEntry
  /\ UNCHANGED <<registry, nextId, calls, quotaCache, config, qlog, pool, gw,
                 resolver, jobCache, jobIndex, media, transcoder, userIndex,
                 snap>>

\* ------------------------------------------------------- the user's index
\* The cache entry download-job-index:<user> of one user as the array it
\* holds, with the calls of addJobToUserIndex (slots 1 and 2) and one call
\* of listJobsForUser working on it.  Job ids are 1, 2, ... in the order of
\* createJob.  written lists, latest first, the ids whose index write was
\* carried out; gone are the ids that no longer resolve to a job.
JOB_INDEX_LIMIT == 50

MaxSeqSubmits == 52

MaxRaceSubmits == 3

MaxCacheErrors == 1

Slots == 1..2

NoIndexOp == [pc |-> "idle", jobId |-> None, existing |-> <<>>]

NoListing == [pc |-> "idle", ids |-> <<>>, missing |-> {}]

NoUserIndex ==
  [cache |-> <<>>, op |-> [o \in Slots |-> NoIndexOp], listing |-> NoListing,
   nextJob |-> 1, written |-> <<>>, gone |-> {}, errors |-> 0]

Without(ids, drop) ==
  LET keep(id) == id \notin drop IN SelectSeq(ids, keep)

sliceUnbounded(ids, limit) == ids

slice(ids, limit) ==
  IF Len(ids) <= limit THEN ids ELSE SubSeq(ids, 1, limit)

\* [jobId, ...existing.filter((id) => id !== jobId)].slice(0, JOB_INDEX_LIMIT)
nextIndex(existing, jobId) ==
  slice(<<jobId>> \o Without(existing, {jobId}), JOB_INDEX_LIMIT)

\* createJob made the job with the next id and started addJobToUserIndex,
\* which runs to its await of db.getCache
IndexStart(o, submits) ==
  /\ userIndex.op[o].pc = "idle"
  /\ userIndex.nextJob <= submits
  /\ userIndex' = [userIndex EXCEPT
                     !.op[o] = [NoIndexOp EXCEPT !.pc = "get",
                                                 !.jobId = userIndex.nextJob],
                     !.nextJob = @ + 1]
  /\ UNCHANGED <<registry, nextId, calls, quotaCache, config, qlog, pool, gw,
                 resolver, jobCache, jobIndex, media, transcoder, tracked,
                 snap>>

\* db.getCache of addJobToUserIndex returned the array or rejected (the
\* catch ends the call)
IndexGetReturns(o, rejected) ==
  /\ userIndex.op[o].pc = "get"
  /\ rejected => userIndex.errors < MaxCacheErrors
  /\ userIndex' =
       IF rejected
       THEN [userIndex EXCEPT !.op[o] = NoIndexOp, !.errors = @ + 1]
       ELSE [userIndex EXCEPT !.op[o].pc = "set",
                              !.op[o].existing = userIndex.cache]
  /\ UNCHANGED <<registry, nextId, calls, quotaCache, config, qlog, pool, gw,
                 resolver, jobCache, jobIndex, media, transcoder, tracked,
                 snap>>

\* db.setCache of addJobToUserIndex wrote next or rejected
IndexSetReturns(o, rejected) ==
  LET op == userIndex.op[o] IN
  /\ op.pc = "set"
  /\ rejected => userIndex.errors < MaxCacheErrors
  /\ userIndex' =
       IF rejected
       THEN [userIndex EXCEPT !.op[o] = NoIndexOp, !.errors = @ + 1]
       ELSE [userIndex EXCEPT !.op[o] = NoIndexOp,
                              !.cache = nextIndex(op.existing, op.jobId),
                              !.written = <<op.jobId>> \o @]
  /\ UNCHANGED <<registry, nextId, calls, quotaCache, config, qlog, pool, gw,
                 resolver, jobCache, jobIndex, media, transcoder, tracked,
                 snap>>

\* cleanupJob removed a job and its snapshot is gone: the id no longer
\* resolves to a job
JobGone(id) ==
  /\ id < userIndex.nextJob
  /\ id \notin userIndex.gone
  /\ \A o \in Slots : userIndex.op[o].jobId # id
  /\ userIndex' = [userIndex EXCEPT !.gone = @ \cup {id}]
  /\ UNCHANGED <<registry, nextId, calls, quotaCache, config, qlog, pool, gw,
                 resolver, jobCache, jobIndex, media, transcoder, tracked,
                 snap>>

\* listJobsForUser up to its db.setCache: the index is read, the ids are
\* looked up, and those that give no job of the user are missing; with none
\* missing nothing is written
ListGetReturns ==
  LET ids == userIndex.cache
      missing == {ids[i] : i \in 1..Len(ids)} \cap userIndex.gone
  IN
  /\ userIndex.listing.pc = "idle"
  /\ missing # {}
  /\ userIndex' = [userIndex EXCEPT
                     !.listing = [pc |-> "set", ids |-> ids,
                                  missing |-> missing]]
  /\ UNCHANGED <<registry, nextId, calls, quotaCache, config, qlog, pool, gw,
                 resolver, jobCache, jobIndex, media, transcoder, tracked,
                 snap>>

\* db.setCache of listJobsForUser wrote ids without the missing ones, or
\* rejected
ListSetReturns(rejected) ==
  LET l == userIndex.listing IN
  /\ l.pc = "set"
  /\ rejected => userIndex.errors < MaxCacheErrors
  /\ userIndex' =
       IF rejected
       THEN [userIndex EXCEPT !.listing = NoListing, !.errors = @ + 1]
       ELSE [userIndex EXCEPT !.listing = NoListing,
                              !.cache = Without(l.ids, l.missing)]
  /\ UNCHANGED <<registry, nextId, calls, quotaCache, config, qlog, pool, gw,
                 resolver, jobCache, jobIndex, media, transcoder, tracked,
                 snap>>

\* ---------------------------------------------------- snapshot throttle
\* One job with its status in the registry, the status its cache snapshot
\* shows ("none": no snapshot), lastPersistAt, the db.setCache calls of
\* persistJob that have not landed yet (oldest first) and Date.now() in ms.
PERSIST_INTERVAL_MS == 2000

TickMs == 1000

MaxClockMs == 6000

NoSnap ==
  [status |-> "none", cached |-> "none", lastPersistAt |-> 0,
   writes |-> <<>>, now |-> PERSIST_INTERVAL_MS]

\* persistJob lets the write through: now - last >= PERSIST_INTERVAL_MS
persists(s) == s.now - s.lastPersistAt >= PERSIST_INTERVAL_MS

\* persistJob(job) up to its await: throttled, or lastPersistAt set and the
\* snapshot of the job as it is now handed to db.setCache
persistSnap(s) ==
  IF persists(s)
  THEN [s EXCEPT !.lastPersistAt = s.now, !.writes = Append(@, s.status)]
  ELSE s

\* Date.now() advances
SnapTick ==
  /\ snap.now < MaxClockMs
  /\ snap' = [snap EXCEPT !.now = @ + TickMs]
  /\ UNCHANGED <<registry, nextId, calls, quotaCache, config, qlog, pool, gw,
                 resolver, jobCache, jobIndex, media, transcoder, tracked,
                 userIndex>>

\* createJob: jobs.set and void persistJob(job)
SnapCreate ==
  /\ snap.status = "none"
  /\ snap' = persistSnap([snap EXCEPT !.status = "queued"])
  /\ UNCHANGED <<registry, nextId, calls, quotaCache, config, qlog, pool, gw,
                 resolver, jobCache, jobIndex, media, transcoder, tracked,
                 userIndex>>

\* updateJob of a job that is not terminal: runDownloadJob's status running
\* and the progress reports keep or set running, markJobCompleted,
\* markJobFailed and cancelJob set a terminal status; then persistJob
SnapUpdate(status) ==
  /\ snap.status \in {"queued", "running"}
  /\ snap' = persistSnap([snap EXCEPT !.status = status])
  /\ UNCHANGED <<registry, nextId, calls, quotaCache, config, qlog, pool, gw,
                 resolver, jobCache, jobIndex, media, transcoder, tracked,
                 userIndex>>

\* the oldest db.setCache of persistJob lands or is rejected
SnapWriteLands(rejected) ==
  /\ snap.writes # <<>>
  /\ snap' = [snap EXCEPT !.writes = Tail(@),
                          !.cached = IF rejected THEN @ ELSE Head(snap.writes)]
  /\ UNCHANGED <<registry, nextId, calls, quotaCache, config, qlog, pool, gw,
                 resolver, jobCache, jobIndex, media, transcoder, tracked,
                 userIndex>>

\* cleanupJob, when the cleanup timer fires: the job and its lastPersistAt
\* go and the snapshot is overwritten with null
SnapCleanup ==
  /\ snap.status \in {"completed", "failed"}
  /\ snap.writes = <<>>
  /\ snap' = [snap EXCEPT !.status = "none", !.cached = "none",
                          !.lastPersistAt = 0]
  /\ UNCHANGED <<registry, nextId, calls, quotaCache, config, qlog, pool, gw,
                 resolver, jobCache, jobIndex, media, transcoder, tracked,
                 userIndex>>

InitCommon ==
  /\ jobs = [i \in Ids |-> NoJob]
  /\ jobKeys = [k \in Keys |-> None]
  /\ cleanupTimers = {}
  /\ armed = {}
  /\ jobControllers = {}
  /\ nextId = 1
  /\ calls = [i \in Ids |-> NoCall]
  /\ qlog = <<>>
  /\ pool = NoPool
  /\ gw = NoGw
  /\ resolver = NoResolver
  /\ jobCache = [i \in Ids |-> NoJob]
  /\ jobIndex = [u \in Users |-> {}]
  /\ media = NoMedia
  /\ transcoder = NoTranscoder
  /\ tracked = NoEntry
  /\ userIndex = NoUserIndex
  /\ snap = NoSnap

Entry(banned, enabled, limit) ==
  [banned |-> banned, downloadLimitEnabled |-> enabled,
   downloadLimitPerDay |-> limit]

\* The job registry with its download runs; the daily limit is switched off
\* for both users.
Init ==
  /\ InitCommon
  /\ quotaCache = [u \in Users |-> <<>>]
  /\ config = [u \in Users |-> Entry(FALSE, FALSE, <<>>)]

Next ==
  \/ \E k \in Keys : StartRouteGET(k)
  \/ \E u \in Users, id \in Ids : CancelRoutePOST(u, id)
  \/ \E id \in Ids : CleanupTimerFire(id)
  \/ \E c \in Ids : Validate(c) \/ AttemptStep(c) \/ FfmpegProgress(c)

Spec == Init /\ [][Next]_vars

\* The limit settings of u1 and the counter values its day may have reached;
\* u2 is banned.
Limits == {<<>>} \cup {<<n>> : n \in -1..MaxLimit}
Counts == {<<>>} \cup {<<n>> : n \in 0..MaxLimit}

QuotaInit ==
  /\ InitCommon
  /\ \E cnt \in Counts :
       quotaCache = [u \in Users |-> IF u = "u1" THEN cnt ELSE <<>>]
  /\ \E en \in BOOLEAN, lim \in Limits :
       config = [u \in Users |->
                   IF u = "u1" THEN Entry(FALSE, en, lim)
                   ELSE Entry(TRUE, TRUE, <<>>)]

\* One direct download (GET /api/download) on its own, for every request,
\* limit setting and counter value.
DownloadNext ==
  \/ /\ nextId = 1
     /\ \E u \in Users \cup {Ghost}, url \in UrlKinds, checkOnly \in BOOLEAN :
          DownloadRouteGET(u, url, checkOnly)
  \/ \E c \in Ids :
       Validate(c) \/ QuotaStep(c) \/ AttemptStep(c) \/ ClientAbort(c)

DownloadSpec == QuotaInit /\ [][DownloadNext]_vars

\* Direct downloads of u1 for plain files running concurrently, no client
\* going away: the interleavings of the quota steps of several calls.
RaceNext ==
  \/ \E checkOnly \in BOOLEAN : DownloadRouteGET("u1", "file", checkOnly)
  \/ \E c \in Ids :
       \/ Validate(c) \/ QuotaStep(c) \/ Mkdtemp(c) \/ FfmpegClose(c)
       \/ CheckOutput(c) \/ Exhausted(c) \/ Rethrow(c)

\* The day starts with no counter; u1 has a positive daily limit.
RaceInit ==
  /\ InitCommon
  /\ quotaCache = [u \in Users |-> <<>>]
  /\ \E lim \in 1..MaxLimit :
       config = [u \in Users |->
                   IF u = "u1" THEN Entry(FALSE, TRUE, <<lim>>)
                   ELSE Entry(TRUE, TRUE, <<>>)]

RaceSpec == RaceInit /\ [][RaceNext]_vars

\* The quota manager called sequentially: each step runs the validation and
\* quota part of executeDownloadCore, or one refundQuota, to its end before
\* the next begins, and logs what it answered.  The day starts with no
\* counter.
quotaOutcome(u, url, checkOnly) ==
  IF urlError(url) # "" \/ u = Ghost THEN [rejected |-> TRUE, q |-> NoQuota]
  ELSE IF config[u].banned THEN [rejected |-> TRUE, q |-> NoQuota]
  ELSE [rejected |-> FALSE,
        q |-> checkAndConsumeQuota(limitEnabledOf(config[u]),
                                   limitPerDayOf(config[u]), checkOnly,
                                   quotaCache[u])]

SeqCall(u, url, checkOnly) ==
  LET o == quotaOutcome(u, url, checkOnly) IN
  /\ Len(qlog) < MaxSeqCalls
  /\ qlog' = Append(qlog,
               [op |-> IF o.rejected THEN "rejected"
                       ELSE IF checkOnly THEN "check" ELSE "consume",
                allowed |-> o.q.allowed, remaining |-> o.q.remaining,
                refundable |-> o.q.cacheKey /\ o.q.write])
  /\ quotaCache' = IF o.q.write
                     THEN [quotaCache EXCEPT ![u] = <<o.q.next>>]
                     ELSE quotaCache
  /\ UNCHANGED <<registry, nextId, calls, config, pool, gw, resolver, jobCache, jobIndex, media, transcoder, tracked, userIndex, snap>>

\* Entries of the log: the refundQuota runs, and the calls whose closure
\* refunds (a cache key and a consumed unit)
Refunds == {i \in DOMAIN qlog : qlog[i].op = "refund"}
Refundable == {i \in DOMAIN qlog : qlog[i].refundable}

\* One run of refundQuota of a download of u that consumed a unit (a failed
\* download starts at most two)
SeqRefund(u) ==
  /\ Len(qlog) < MaxSeqCalls
  /\ Cardinality(Refunds) < 2 * Cardinality(Refundable)
  /\ qlog' = Append(qlog, [op |-> "refund", allowed |-> TRUE,
                           remaining |-> <<>>, refundable |-> FALSE])
  /\ quotaCache' = IF refundQuota(quotaCache[u]) = <<>> THEN quotaCache
                   ELSE [quotaCache EXCEPT ![u] = refundQuota(quotaCache[u])]
  /\ UNCHANGED <<registry, nextId, calls, config, pool, gw, resolver, jobCache, jobIndex, media, transcoder, tracked, userIndex, snap>>

QuotaSeqInit ==
  /\ InitCommon
  /\ quotaCache = [u \in Users |-> <<>>]
  /\ \E en \in BOOLEAN, lim \in Limits :
       config = [u \in Users |->
                   IF u = "u1" THEN Entry(FALSE, en, lim)
                   ELSE Entry(TRUE, TRUE, <<>>)]

QuotaNext ==
  \/ \E u \in Users \cup {Ghost}, url \in UrlKinds, checkOnly \in BOOLEAN :
       SeqCall(u, url, checkOnly)
  \/ SeqRefund("u1")

QuotaSpec == QuotaSeqInit /\ [][QuotaNext]_vars

\* --------------------------------------------------------- cache failures

\* Variant of the catch of checkAndConsumeQuota that keeps the cache key
quotaFailOpenKeepsKey == [allowed |-> TRUE, remaining |-> <<>>,
                          cacheKey |-> TRUE, write |-> FALSE, next |-> 0]

\* The catch of checkAndConsumeQuota: allowed, remaining null, no cache key
quotaFailOpen == [allowed |-> TRUE, remaining |-> <<>>, cacheKey |-> FALSE,
                  write |-> FALSE, next |-> 0]

\* After a quota check that failed open: the check-only answer, or fs.mkdtemp
afterFailOpen(cl) ==
  IF cl.checkOnly
    THEN [cl EXCEPT !.quotaResult = quotaFailOpen, !.pc = "done",
                    !.outcome = "checked"]
    ELSE [cl EXCEPT !.quotaResult = quotaFailOpen, !.pc = "mkdtemp"]

\* db.getCache of the quota check throws
QuotaGetFail(c) ==
  /\ calls[c].pc = "quotaGet"
  /\ StepTo(c, Quiet(afterFailOpen(calls[c])))
  /\ UNCHANGED <<nextId, quotaCache, config, qlog, pool, gw, resolver, jobCache, jobIndex, media, transcoder, tracked, userIndex, snap>>

\* db.setCache of the quota check throws; the write may have reached the
\* store before the error
QuotaSetFail(c) ==
  LET cl == calls[c] IN
  /\ cl.pc = "quotaSet"
  /\ \/ quotaCache' = quotaCache
     \/ quotaCache' = [quotaCache EXCEPT ![cl.user] = <<cl.quotaResult.next>>]
  /\ StepTo(c, Quiet(afterFailOpen(cl)))
  /\ UNCHANGED <<nextId, config, qlog, pool, gw, resolver, jobCache, jobIndex, media, transcoder, tracked, userIndex, snap>>

\* db.getCache of refundQuota throws: logged, nothing else
RefundGetFail(c, i) ==
  /\ i \in DOMAIN calls[c].refunds
  /\ calls[c].refunds[i].st = "get"
  /\ calls' = [calls EXCEPT ![c].refunds[i] = [st |-> "failed", cur |-> <<>>]]
  /\ UNCHANGED <<registry, nextId, quotaCache, config, qlog, pool, gw, resolver, jobCache, jobIndex, media, transcoder, tracked, userIndex, snap>>

\* db.setCache of refundQuota throws: logged, nothing else; the write may
\* have reached the store before the error
RefundSetFail(c, i) ==
  LET cl == calls[c] IN
  /\ i \in DOMAIN cl.refunds
  /\ cl.refunds[i].st = "set"
  /\ \/ quotaCache' = quotaCache
     \/ quotaCache' = [quotaCache EXCEPT
                         ![cl.user] = refundQuota(cl.refunds[i].cur)]
  /\ calls' = [calls EXCEPT ![c].refunds[i] = [st |-> "failed", cur |-> <<>>]]
  /\ UNCHANGED <<registry, nextId, config, qlog, pool, gw, resolver, jobCache, jobIndex, media, transcoder, tracked, userIndex, snap>>

CacheFail(c) ==
  \/ QuotaGetFail(c) \/ QuotaSetFail(c)
  \/ \E i \in 1..2 : RefundGetFail(c, i) \/ RefundSetFail(c, i)

\* One direct download with a cache whose reads and writes may fail
CacheErrNext ==
  \/ DownloadNext
  \/ \E c \in Ids : CacheFail(c)

CacheErrSpec == QuotaInit /\ [][CacheErrNext]_vars

\* One download on its own, without a daily limit, with a transcoder that
\* may reject options
NarrowNext ==
  \/ /\ nextId = 1
     /\ \E url \in {"hls", "file"} : DownloadRouteGET("u1", url, FALSE)
  \/ \E c \in Ids :
       \/ Validate(c) \/ AttemptStep(c) \/ ClientAbort(c)
       \/ \E unsupported \in SUBSET OptionNames :
            FfmpegCloseUnsupported(c, unsupported)

NarrowSpec == Init /\ [][NarrowNext]_vars

\* executeDownloadCore called with preferProxy given, as its options allow
CoreCall(url, preferProxy) ==
  /\ nextId = 1
  /\ calls' = [calls EXCEPT ![nextId] =
                 [NewCall("direct", "u1", url, FALSE)
                    EXCEPT !.preferProxy = preferProxy]]
  /\ nextId' = nextId + 1
  /\ UNCHANGED <<registry, quotaCache, config, qlog, pool, gw, resolver, jobCache, jobIndex, media, transcoder, tracked, userIndex, snap>>

\* One run of executeDownloadCore without a daily limit, for both source
\* kinds and both orders of the modes
AttemptNext ==
  \/ \E url \in {"hls", "file"}, preferProxy \in BOOLEAN :
       CoreCall(url, preferProxy)
  \/ \E c \in Ids : Validate(c) \/ AttemptStep(c) \/ ClientAbort(c)

AttemptSpec == Init /\ [][AttemptNext]_vars

\* The job registry with its cache entries and its routes; a run of
\* executeDownloadCore is one step and no cache write of the driver is
\* in flight across steps
OwnerNext ==
  \/ \E k \in Keys : StartRouteGET(k)
  \/ \E u \in Users, id \in Ids :
       CancelRoutePOST(u, id) \/ StatusRouteGET(u, id) \/ FileRouteGET(u, id)
  \/ \E u \in Users : ListRouteGET(u)
  \/ \E id \in Ids :
       \/ CleanupTimerFire(id) \/ IndexLands(id) \/ SnapshotLands(id)
       \/ CacheExpire(id)
       \/ \E complete \in BOOLEAN : RunReturns(id, complete, TRUE)

OwnerSpec == Init /\ [][OwnerNext]_vars

\* The job registry with the driver's cache writes, which may be rejected; a
\* run of executeDownloadCore is one step
PersistNext ==
  \/ \E k \in Keys : StartRouteGET(k)
  \/ \E u \in Users, id \in Ids : CancelRoutePOST(u, id)
  \/ \E id \in Ids :
       \/ CleanupTimerFire(id) \/ CacheExpire(id)
       \/ \E complete, throttled \in BOOLEAN :
            RunReturns(id, complete, throttled)
       \/ \E rejected, throttled \in BOOLEAN :
            PersistReturns(id, rejected, throttled)

PersistSpec == Init /\ [][PersistNext]_vars

\* The same with the timers firing and every awaited cache write returning
\* (or being rejected) in the end
PersistFairSpec ==
  /\ PersistSpec
  /\ \A id \in Ids :
       /\ WF_vars(CleanupTimerFire(id))
       /\ WF_vars(\E rejected, throttled \in BOOLEAN :
                    PersistReturns(id, rejected, throttled))

\* One run of the segment fetcher pool, for every playlist
PoolNext ==
  \/ \E content \in Playlists : PoolStart(content, 2, 0)
  \/ PoolMkdir \/ PoolRewrite
  \/ \E t \in Threads, ok \in BOOLEAN :
       PoolFetchReturns(t, ok) \/ PoolBodyReturns(t, ok)

PoolSpec == Init /\ [][PoolNext]_vars

\* The workers of one pool run, for the playlists the pool accepts, with and
\* without a key, under every interleaving, failure and moment of the signal
WorkerPlaylists ==
  {tags \o Body(n, TRUE) \o <<"ENDLIST">> :
     tags \in {<<>>, <<"KEY">>}, n \in DEFAULT_SEGMENT_MIN_COUNT..MaxSegs}

WorkerNext ==
  \/ \E content \in WorkerPlaylists, concurrency \in 2..MaxConcurrency,
         retries \in {0, DEFAULT_SEGMENT_RETRY} :
       PoolStart(content, concurrency, retries)
  \/ PoolMkdir \/ PoolRewrite \/ PoolAbort \/ PoolCaller
  \/ \E t \in Threads, ok \in BOOLEAN :
       PoolFetchReturns(t, ok) \/ PoolBodyReturns(t, ok)
  \/ \E t \in Threads : PoolSleepEnds(t)

WorkerSpec == Init /\ [][WorkerNext]_vars

\* One call of resolveMediaPlaylist for address "a" over four addresses, for
\* every answer to every fetch: playlists that nest, that refer to each
\* other, and that redirect to "a"
ResolveNext ==
  \/ ResolveStart
  \/ \E response \in PlaylistResults(Urls, {1}) :
       response.url = "a" /\ ResolveInitial(response)
  \/ \E candidate \in PlaylistResults(Urls, {1}) :
       /\ media.pc = "variant"
       /\ candidate.url \in {asked(media).url, "a"}
       /\ ResolveVariant(candidate)
  \/ ResolveFails

ResolveSpec == Init /\ [][ResolveNext]_vars

\* The same, where the call is made and every fetch in flight settles
ResolveFairSpec == ResolveSpec /\ WF_vars(ResolveNext)

\* One call of resolveMediaPlaylist over three addresses that do not
\* redirect, for every bandwidth of every variant
OrderNext ==
  \/ ResolveStart
  \/ \E response \in PlaylistResults({"a", "b", "c"}, 1..MaxBandwidth) :
       response.url = "a" /\ ResolveInitial(response)
  \/ \E candidate \in PlaylistResults({"a", "b", "c"}, 1..MaxBandwidth) :
       /\ media.pc = "variant"
       /\ candidate.url = asked(media).url
       /\ ResolveVariant(candidate)
  \/ ResolveFails

OrderSpec == Init /\ [][OrderNext]_vars

\* One playlist repair, for every playlist and probe outcome
RepairNext ==
  \/ \E content \in LineSeqs(MaxLines), proxyToken \in BOOLEAN :
       RepairStart(content, proxyToken)
  \/ \E imagesAreMedia \in BOOLEAN : RepairProbe(imagesAreMedia)
  \/ \E probes \in Probes : RepairRewrite(probes)
  \/ RepairStore

RepairSpec == Init /\ [][RepairNext]_vars

\* Playlists of n segments that are all .jpg but for the k-th, a .png, an
\* unresolved image line or a media segment
RECURSIVE ImageBody(_, _, _)
ImageBody(n, k, other) ==
  IF n = 0 THEN <<>>
  ELSE ImageBody(n - 1, k, other)
         \o <<"EXTINF", IF n = k THEN other ELSE "IMG">>

RECURSIVE KindSeqs(_, _)
KindSeqs(n, kinds) ==
  IF n = 0 THEN {<<>>}
  ELSE KindSeqs(n - 1, kinds)
         \cup {Append(t, k) :
                 t \in {q \in KindSeqs(n - 1, kinds) : Len(q) = n - 1},
                 k \in kinds}

RewritePlaylists ==
  KindSeqs(MaxLines - 1, {"EXTINF", "SEG", "IMG", "PNG", "IMGX", "TAG"})
    \cup {ImageBody(n, k, other) :
            n \in 1..MaxSegs, k \in 0..1, other \in {"PNG", "IMGX", "SEG"}}

\* filterInvalidSegments on every playlist of up to MaxLines lines
FilterNext ==
  /\ resolver.pc = "idle"
  /\ \E content \in LineSeqs(MaxLines) : FilterCall(content)

FilterSpec == Init /\ [][FilterNext]_vars

\* tryRewriteImageSegments on every such playlist, for every answer of the
\* probes
RewriteNext ==
  /\ resolver.pc = "idle"
  /\ \E content \in RewritePlaylists, probes \in Probes :
       RewriteCall(content, probes)

RewriteSpec == Init /\ [][RewriteNext]_vars

\* One request to the proxy gateway, for every request and token store
GatewayNext ==
  \/ \E t \in Tokens, ctx \in Contexts : GwStore(t, ctx)
  \/ \E t \in Tokens : GwExpire(t)
  \/ \E req \in GwRequests : GwRequest(req)
  \/ GwLookup
  \/ \E response \in Upstreams : GwUpstream(response)
  \/ GwPeek

GatewaySpec == Init /\ [][GatewayNext]_vars

\* One attempt's playlist handling, for each short manifest, with and
\* without the proxy.
TranscoderNext ==
  \/ \E viaProxy \in BOOLEAN, token \in Tokens : AttemptStart(viaProxy, token)
  \/ /\ transcoder.pc = "playlist"
     /\ \E content \in Manifests, thrown \in BOOLEAN, parallel \in BOOLEAN :
          AttemptPlaylist(content, thrown, parallel)
  \/ AttemptEnds

TranscoderSpec == Init /\ [][TranscoderNext]_vars

\* One job under the patches the driver and the transcoder's progress give
UpdateNext ==
  \/ EntryCreate
  \/ \E known \in BOOLEAN, patch \in JobPatches : EntryUpdate(known, patch)
  \/ EntryCleanup

UpdateSpec == Init /\ [][UpdateNext]_vars

\* Submissions of one user one after the other: each addJobToUserIndex has
\* returned before the next createJob
IndexSeqNext ==
  \/ /\ \A o \in Slots : userIndex.op[o].pc = "idle"
     /\ IndexStart(1, MaxSeqSubmits)
  \/ \E rejected \in BOOLEAN : IndexGetReturns(1, rejected)
  \/ \E rejected \in BOOLEAN : IndexSetReturns(1, rejected)

IndexSeqSpec == Init /\ [][IndexSeqNext]_vars

\* Submissions and listings of one user as they interleave: createJob does
\* not wait for addJobToUserIndex
IndexRaceNext ==
  \/ \E o \in Slots :
       \/ IndexStart(o, MaxRaceSubmits)
       \/ \E rejected \in BOOLEAN : IndexGetReturns(o, rejected)
       \/ \E rejected \in BOOLEAN : IndexSetReturns(o, rejected)
  \/ \E id \in 1..MaxRaceSubmits : JobGone(id)
  \/ ListGetReturns
  \/ \E rejected \in BOOLEAN : ListSetReturns(rejected)

IndexRaceSpec == Init /\ [][IndexRaceNext]_vars

\* One job's snapshots under the throttle of persistJob
SnapshotNext ==
  \/ SnapTick
  \/ SnapCreate
  \/ \E status \in {"running", "completed", "failed"} : SnapUpdate(status)
  \/ \E rejected \in BOOLEAN : SnapWriteLands(rejected)
  \/ SnapCleanup

SnapshotSpec == Init /\ [][SnapshotNext]_vars

\* Every cache write that was issued lands, and does so unrejected.  The
\* cleanup timer, two hours after the terminal status, is left free: the
\* snapshot exists until it fires.
SnapshotFairSpec ==
  SnapshotSpec /\ WF_vars(SnapWriteLands(FALSE))

\* ------------------------------------------------------------- properties

ActiveWithKey(k) == {id \in Ids : isJobActive(jobs[id]) /\ jobs[id].key = k}

\* C1: while a job for key k is queued or running, a submission with key k
\* is answered with that job's id and deduped = true (and so, by
\* StartRouteGET, creates no job and starts no run).
C1_SubmitDedup ==
  \A k \in Keys : \A id \in ActiveWithKey(k) :
    startResponse(k).deduped /\ startResponse(k).jobId = id

\* C2: in every reachable state each key has at most one queued or running
\* job, and that job is the one getJobByKey returns for the key.
C2_OneActivePerKey ==
  \A k \in Keys :
    /\ Cardinality(ActiveWithKey(k)) <= 1
    /\ \A id \in ActiveWithKey(k) : getJobByKey(jobs, jobKeys, k) = id

Canceled(job) == job.status = "failed" /\ job.error = "Canceled"

\* C3: a job that is failed with error "Canceled" stays failed with error
\* "Canceled" in every step that does not remove it from the registry.
C3_CanceledSticks ==
  [][\A id \in Ids :
       (Canceled(jobs[id]) /\ jobs'[id].status # "none")
         => Canceled(jobs'[id])]_vars

\* C4: a cancel request of the owner for a completed or failed job is
\* answered 409 and leaves the job as it was.
C4_CancelTerminalNoOp ==
  [][\A u \in Users, id \in Ids :
       (/\ jobs[id].status \in {"completed", "failed"}
        /\ jobs[id].user = u
        /\ CancelRoutePOST(u, id))
         => (cancelResponse(u, id) = 409 /\ jobs'[id] = jobs[id])]_vars

\* C5: once the signal of a call is raised, no step of the call spawns the
\* transcoder and no step begins another attempt.
C5_NoWorkAfterSignal ==
  [][\A c \in Ids :
       calls[c].aborted =>
         /\ calls'[c].pc = "ffmpeg" => calls[c].pc = "ffmpeg"
         /\ calls'[c].attempt = calls[c].attempt]_vars

LeadingConsumes(n) == \A i \in 1..n : qlog[i].op = "consume"

\* C6: with the limit enabled and L = limitPerDay >= 1, starting from no
\* counter, the n-th of consecutive consumptions is allowed with remaining
\* L - n for n <= L and denied with remaining 0 beyond; after L + 1
\* consumptions and one refund, a check-only call is allowed with remaining 1.
C6_QuotaSequence ==
  LET L == limitPerDayOf(config["u1"]) IN
  (limitEnabledOf(config["u1"]) /\ L >= 1) =>
    /\ \A n \in DOMAIN qlog :
         LeadingConsumes(n) =>
           IF n <= L
             THEN qlog[n].allowed /\ qlog[n].remaining = <<L - n>>
             ELSE ~qlog[n].allowed /\ qlog[n].remaining = <<0>>
    /\ (/\ Len(qlog) >= L + 3
        /\ LeadingConsumes(L + 1)
        /\ qlog[L + 2].op = "refund"
        /\ qlog[L + 3].op = "check")
         => (qlog[L + 3].allowed /\ qlog[L + 3].remaining = <<1>>)

\* The default limit of 3: three consumptions, a denied fourth, one refund,
\* then a check
C6_Witness ==
  /\ limitEnabledOf(config["u1"])
  /\ config["u1"].downloadLimitPerDay = <<>>
  /\ Len(qlog) = DEFAULT_DAILY_LIMIT + 3
  /\ LeadingConsumes(DEFAULT_DAILY_LIMIT + 1)
  /\ qlog[DEFAULT_DAILY_LIMIT + 2].op = "refund"
  /\ qlog[DEFAULT_DAILY_LIMIT + 3].op = "check"
  /\ qlog[DEFAULT_DAILY_LIMIT + 3].remaining = <<1>>

\* The call went through the quota step and wrote the counter
consumed(cl) ==
  /\ cl.quotaResult.allowed /\ cl.quotaResult.cacheKey /\ ~cl.checkOnly
  /\ cl.pc \notin {"validate", "quotaGet", "quotaSet"}

\* The call has ended with an error and every refund it started has finished
failedAndSettled(cl) ==
  /\ cl.pc = "done" /\ cl.outcome = "error"
  /\ \A i \in DOMAIN cl.refunds : cl.refunds[i].st \in {"done", "skipped"}

\* The counter the consumption of the call read, from the remaining it
\* answered: remaining = limitPerDay - (currentCount + 1)
countBefore(cl) ==
  limitPerDayOf(config[cl.user]) - cl.quotaResult.remaining[1] - 1

\* C7: after a single download that consumed a unit and failed at the
\* transcoder, with its refunds finished, the counter is what it was before
\* the call.
C7_RefundExactlyOne ==
  \A c \in Ids :
    (consumed(calls[c]) /\ calls[c].ffmpegFailed /\ failedAndSettled(calls[c]))
      => currentCountOf(quotaCache[calls[c].user]) = countBefore(calls[c])

\* C8 as stated: every download that consumed a unit and failed with its
\* attempts exhausted has issued a refund.
C8_AlwaysRefunded ==
  \A c \in Ids :
    (consumed(calls[c]) /\ calls[c].pc = "done" /\ calls[c].outcome = "error")
      => Len(calls[c].refunds) > 0

TranscoderErrors ==
  {"Download aborted", "FFmpeg exited with code 1", "Empty output from ffmpeg",
   "Output appears incomplete"}

\* C8, amended: a download that consumed a unit and failed has issued a
\* refund exactly when one of its attempts failed at the transcoder (error,
\* kill, empty or incomplete output); in particular when its last one did.
C8_RefundIffTranscoderFailed ==
  \A c \in Ids :
    (consumed(calls[c]) /\ calls[c].pc = "done" /\ calls[c].outcome = "error")
      => /\ Len(calls[c].refunds) > 0 <=> calls[c].ffmpegFailed
         /\ calls[c].lastError \in TranscoderErrors => calls[c].ffmpegFailed

\* A consumed unit kept after playlist and proxy-token failures only
C8_Witness ==
  \E c \in Ids :
    /\ consumed(calls[c]) /\ calls[c].pc = "done"
    /\ calls[c].outcome = "error"
    /\ calls[c].attempt = 2
    /\ calls[c].lastError \in {"No playable media segments",
                               "Proxy token unavailable"}
    /\ calls[c].refunds = <<>>

\* C9: the counter in the cache is never negative, whatever the interleaving
\* of the consumptions and refunds of concurrent downloads.
C9_CounterNonNegative ==
  \A u \in Users : quotaCache[u] # <<>> => quotaCache[u][1] >= 0

\* Two downloads have both refunded, and a refund found the counter at 0
C9_Witness ==
  /\ quotaCache["u1"] = <<0>>
  /\ \A c \in 1..2 : Len(calls[c].refunds) = 2
  /\ \E c \in 1..2, i \in 1..2 : calls[c].refunds[i].st = "skipped"
  /\ \E c \in 1..2, i \in 1..2 : calls[c].refunds[i].st = "done"

\* C10: a check-only call, a denied consumption and a call rejected before
\* the quota step leave every counter as it was.
C10_CounterUnchanged ==
  [][(/\ Len(qlog') = Len(qlog) + 1
      /\ LET e == qlog'[Len(qlog')] IN
           \/ e.op \in {"check", "rejected"}
           \/ e.op = "consume" /\ ~e.allowed)
       => quotaCache' = quotaCache]_vars

\* With a counter above 0: a rejected call, a check-only call and a denied
\* consumption have all been answered
C10_Witness ==
  /\ quotaCache["u1"] # <<>>
  /\ \E i, j, k \in DOMAIN qlog :
       /\ qlog[i].op = "rejected"
       /\ qlog[j].op = "check" /\ qlog[j].allowed
       /\ qlog[k].op = "consume" /\ ~qlog[k].allowed


\* The call passed the quota step of an enabled, positive limit without a
\* cache key: its quota check failed open
failedOpen(cl) ==
  /\ cl.kind # "none" /\ cl.user # Ghost
  /\ cl.pc \notin {"validate", "quotaGet", "quotaSet"}
  /\ limitEnabledOf(config[cl.user]) /\ limitPerDayOf(config[cl.user]) > 0
  /\ cl.quotaResult.allowed /\ ~cl.quotaResult.cacheKey

\* C11: a quota check whose cache read or write fails lets the call go on,
\* allowed with remaining none, and that call never starts a refund; a cache
\* failure in a refund changes neither the call's error nor its position.
C11_CacheFailures ==
  /\ [][\A c \in Ids :
          (QuotaGetFail(c) \/ QuotaSetFail(c))
            => /\ calls'[c].quotaResult.allowed
               /\ calls'[c].quotaResult.remaining = <<>>
               /\ calls'[c].outcome # "error"
               /\ failedOpen(calls'[c])]_vars
  /\ [](\A c \in Ids : failedOpen(calls[c]) => calls[c].refunds = <<>>)
  /\ [][\A c \in Ids, i \in 1..2 :
          (RefundGetFail(c, i) \/ RefundSetFail(c, i))
            => /\ calls'[c].lastError = calls[c].lastError
               /\ calls'[c].outcome = calls[c].outcome
               /\ calls'[c].pc = calls[c].pc]_vars

\* A download whose quota check failed open has failed at the transcoder, and
\* no refund was started
C11_Witness ==
  \E c \in Ids :
    /\ failedOpen(calls[c]) /\ calls[c].ffmpegFailed
    /\ calls[c].pc = "done" /\ calls[c].outcome = "error"
    /\ calls[c].refunds = <<>>

\* The enabled groups an error text names: by the group's own option name,
\* and the headers group also by user_agent
namedEnabled(opts, unsupported) ==
  {g \in opts : g \in unsupported
                  \/ (g = "headers" /\ "user_agent" \in unsupported)}

\* Within one attempt the enabled groups only shrink from run to run
neverReenabled ==
  \A c \in Ids :
    (calls[c].pc = "ffmpeg" /\ calls'[c].pc = "ffmpeg"
       /\ calls'[c].attempt = calls[c].attempt)
      => calls'[c].opts \subseteq calls[c].opts

\* C12 as stated: after a failed run that names, among headers,
\* protocol_whitelist, allowed_extensions and allowed_segment_extensions, a
\* group that is enabled, the next run has exactly the enabled groups that
\* were not named, and no group comes back within the attempt.
C12_OmitsExactlyListed ==
  [][/\ \A c \in Ids, unsupported \in SUBSET OptionNames :
          (/\ FfmpegCloseUnsupported(c, unsupported)
           /\ calls[c].opts \cap unsupported # {}
           /\ calls'[c].pc = "ffmpeg")
            => calls'[c].opts = calls[c].opts \ unsupported
     /\ neverReenabled]_vars

\* C12, amended: the headers group counts as named also when the error names
\* user_agent.  After a failed run that names an enabled group, and with
\* fewer than 3 retries made, the transcoder runs again with exactly the
\* enabled groups that were not named; no group comes back within the attempt.
C12_OmitsExactlyNamed ==
  [][/\ \A c \in Ids, unsupported \in SUBSET OptionNames :
          (/\ FfmpegCloseUnsupported(c, unsupported)
           /\ namedEnabled(calls[c].opts, unsupported) # {}
           /\ calls[c].narrowed < NarrowRetries)
            => /\ calls'[c].pc = "ffmpeg"
               /\ calls'[c].runs = calls[c].runs + 1
               /\ \A g \in Groups :
                    g \in calls'[c].opts
                      <=> (g \in calls[c].opts
                           /\ g \notin namedEnabled(calls[c].opts, unsupported))
     /\ neverReenabled]_vars

\* A second run of an HLS attempt that lost the protocol whitelist only
C12_Witness ==
  \E c \in Ids :
    /\ calls[c].pc = "ffmpeg" /\ calls[c].runs = 2
    /\ calls[c].opts = Groups \ {"protocol_whitelist"}

\* C13: an attempt runs the transcoder at most 1 + 3 times; a further run
\* follows only a failed run and has strictly fewer groups enabled; a failed
\* run that names no enabled group is not followed by another run.
C13_BoundedNarrowing ==
  /\ [](\A c \in Ids : calls[c].runs <= NarrowRetries + 1)
  /\ [][\A c \in Ids :
          (calls[c].runs >= 1 /\ calls'[c].runs = calls[c].runs + 1)
            => /\ \E unsupported \in SUBSET OptionNames :
                    FfmpegCloseUnsupported(c, unsupported)
               /\ calls'[c].opts \subseteq calls[c].opts
               /\ calls'[c].opts # calls[c].opts]_vars
  /\ [][\A c \in Ids, unsupported \in SUBSET OptionNames :
          (/\ FfmpegCloseUnsupported(c, unsupported)
           /\ namedEnabled(calls[c].opts, unsupported) = {})
            => calls'[c].runs = 0]_vars

\* The fourth run of an attempt, with a group still enabled
C13_Witness ==
  \E c \in Ids :
    /\ calls[c].pc = "ffmpeg" /\ calls[c].runs = NarrowRetries + 1
    /\ calls[c].opts # {}

\* Where an attempt in the given mode starts: the proxy token, the playlist,
\* or for a plain file the transcoder
modeStart(cl, proxy) ==
  IF ~isHls(cl) THEN "ffmpeg" ELSE IF proxy THEN "token" ELSE "resolve"

\* C14: a plain file gets one attempt, an HLS source at most two: direct
\* then proxy, or proxy then direct with preferProxy.  The second attempt
\* starts in the step in which the first fails, and only then; a successful
\* attempt ends the run; after the last attempt failed the call ends with
\* that attempt's error.
C14_AttemptSequence ==
  /\ [](\A c \in Ids :
          /\ calls[c].attempt <= (IF isHls(calls[c]) THEN 2 ELSE 1)
          /\ calls[c].outcome = "ok" => calls[c].pc = "done"
          /\ (calls[c].outcome = "error" /\ calls[c].attempt >= 1)
               => /\ calls[c].attempt = (IF isHls(calls[c]) THEN 2 ELSE 1)
                  /\ calls[c].lastError # ""
                  /\ (~useProxy(calls[c])
                        => calls[c].lastError # "Proxy token unavailable"))
  /\ [][\A c \in Ids :
          /\ (calls[c].attempt = 0 /\ calls'[c].attempt # 0)
               => /\ calls'[c].attempt = 1
                  /\ calls'[c].pc = modeStart(calls[c], calls[c].preferProxy)
          /\ (calls[c].attempt = 1 /\ calls'[c].attempt # 1)
               => /\ calls'[c].attempt = 2
                  /\ calls[c].lastError = "" /\ calls'[c].lastError # ""
                  /\ calls'[c].pc = modeStart(calls[c], ~calls[c].preferProxy)
          /\ (calls[c].attempt = 1 /\ calls'[c].lastError # calls[c].lastError)
               => IF isHls(calls[c]) THEN calls'[c].attempt = 2
                  ELSE calls'[c].pc = "exhausted"
          /\ calls[c].attempt = 2 => calls'[c].attempt = 2
          /\ calls[c].pc \in {"exhausted", "rethrow", "done"}
               => /\ calls'[c].lastError = calls[c].lastError
                  /\ calls'[c].attempt = calls[c].attempt
                  /\ calls'[c].outcome \in {calls[c].outcome, "error"}]_vars

\* An HLS run with preferProxy whose proxy attempt failed and whose direct
\* attempt failed at the transcoder has ended with the transcoder's error
C14_Witness ==
  \E c \in Ids :
    /\ isHls(calls[c]) /\ calls[c].preferProxy
    /\ calls[c].attempt = 2 /\ calls[c].outcome = "error"
    /\ calls[c].lastError = "FFmpeg exited with code 1"

\* C15: after a run that ended with code 0, an attempt whose playlist
\* declared a duration D > 0 and whose reported output time T (in
\* microseconds here) is below 0.9 * D fails, and so does an attempt whose
\* output file is missing or empty.
C15_OutputCompleteness ==
  [][\A c \in Ids, size \in Sizes, outTime \in OutTimes :
       (/\ CheckOutputWith(c, size, outTime)
        /\ \/ size = <<>> \/ size = <<0>>
           \/ (calls[c].expected /\ 10 * outTime < 9 * 1000 * PlaylistMs))
         => /\ calls'[c].outcome # "ok"
            /\ calls'[c].lastError \in {"Empty output from ffmpeg",
                                        "Output appears incomplete"}]_vars

\* The conditions under which the pool is said to decline
ineligible(content) ==
  \/ ~Has(content, "ENDLIST")
  \/ Has(content, "BYTERANGE") \/ Has(content, "PART")
  \/ Has(content, "PRELOAD")
  \/ Lines(content, "SEG") < 6
  \/ Has(content, "KEYFMT")

\* C16: called with a playlist that has no end-of-list marker, or a
\* byte-range, part or preload-hint tag (whatever its segment count), or
\* fewer than 6 segments, or a key with a KEYFORMAT other than identity, the
\* segment fetcher pool returns no result, fetches nothing and writes no
\* file (it makes no directory either).
C16_PoolDeclines ==
  (pool.pc # "idle" /\ ineligible(pool.content))
    => /\ pool.pc = "done" /\ pool.result = "null"
       /\ pool.fetches = 0 /\ pool.files = 0 /\ pool.dirs = 0

\* The pool has declined a VOD playlist of 7 segments that has a byte-range
\* tag
C16_Witness ==
  /\ pool.pc = "done" /\ pool.result = "null"
  /\ Has(pool.content, "ENDLIST") /\ Has(pool.content, "EXTINF")
  /\ Lines(pool.content, "SEG") = 7
  /\ Has(pool.content, "BYTERANGE")
  /\ ~Has(pool.content, "KEYFMT") /\ ~Has(pool.content, "PART")
  /\ ~Has(pool.content, "PRELOAD")

\* C17: for a playlist with at least one segment line of a non-media
\* extension and no key or map tag, when the byte probe of the sampled
\* candidates failed and no extension substitution probed positive, the
\* manifest used for transcoding is the playlist without its invalid
\* segment lines and their paired #EXTINF tags, and a no-playable-media
\* error is reported when no segment is left.
C17_InvalidSegmentsRemoved ==
  (/\ resolver.pc = "done"
   /\ Has(resolver.content, "IMG") /\ ~hasEncryptionOrMap(resolver.content)
   /\ resolver.probe = "failed" /\ resolver.rewrite = "failed")
    => IF Has(filterInvalidSegments(resolver.content).content, "SEG")
         THEN /\ resolver.error = ""
              /\ resolver.manifest
                   = filterInvalidSegments(resolver.content).content
         ELSE resolver.error # ""

\* The gateway answers this step with 403 Unauthorized and fetches nothing
unauthorized ==
  /\ gw'.pc = "done" /\ gw'.status = 403 /\ gw'.message = "Unauthorized"
  /\ gw'.fetches = gw.fetches

\* The parameter checks of a request with this token are over in this step
decidesRequest(token) ==
  gw.pc = "idle" /\ gw'.pc # "idle" /\ gw'.req.token = token

\* The token lookup returned in this step
lookupReturns == gw.pc = "lookup" /\ gw'.pc # "lookup"

\* The upstream fetch only follows a lookup that returned a stored context
fetchAfterStoredContext ==
  gw'.fetches > gw.fetches
    => /\ gw.pc = "lookup" /\ gw.store[gw.req.token] # <<>>
       /\ gw'.tokenValue = gw.store[gw.req.token]

\* C18 as stated: a request whose token is missing, unknown or expired in
\* the cache is answered unauthorized and nothing is fetched for it; a fetch
\* only follows a token lookup that returned a stored context.
C18_TokenRequiredAlways ==
  [][/\ decidesRequest("none") => unauthorized
     /\ (lookupReturns /\ gw.store[gw.req.token] = <<>>) => unauthorized
     /\ fetchAfterStoredContext]_vars

\* C18: a request that names a target and whose token is missing, unknown
\* or expired in the cache is answered 403 Unauthorized; a request that
\* names no target is answered 400 before its token is looked at; nothing
\* is fetched for either, and a fetch only follows a token lookup that
\* returned a stored context.
C18_TokenRequired ==
  [][/\ (decidesRequest("none") /\ gw'.req.url # "missing") => unauthorized
     /\ (lookupReturns /\ gw.store[gw.req.token] = <<>>) => unauthorized
     /\ (gw.pc = "idle" /\ gw'.pc # "idle" /\ gw'.req.url = "missing")
          => /\ gw'.pc = "done" /\ gw'.status = 400
             /\ gw'.fetches = gw.fetches
     /\ fetchAfterStoredContext]_vars

\* A request for a target with a token the cache does not hold has been
\* answered 403 Unauthorized after the lookup, and nothing was fetched
C18_Witness ==
  /\ gw.pc = "done" /\ gw.req.url = "ok" /\ gw.req.token \in Tokens
  /\ gw.tokenValue = <<>> /\ gw.store[gw.req.token] = <<>>
  /\ gw.status = 403 /\ gw.message = "Unauthorized" /\ gw.fetches = 0

\* The lookup returned a context without the image flag for a request whose
\* target path ends in an image extension
imageWithoutFlag ==
  /\ lookupReturns /\ gw.store[gw.req.token] # <<>>
  /\ ~(gw.store[gw.req.token][1].object /\ gw.store[gw.req.token][1].img)
  /\ gw.req.url = "ok" /\ gw.req.image

\* C19 as stated: a request with a valid token whose stored context lacks
\* the image flag, for a target path ending in an image extension, returns
\* 422 with the "Unexpected segment content-type" message and fetches
\* nothing.
C19_ImageRejectedUnexpected ==
  [][imageWithoutFlag
       => /\ gw'.pc = "done" /\ gw'.status = 422
          /\ gw'.message = "Unexpected segment content-type"
          /\ gw'.fetches = gw.fetches]_vars

\* C19: such a request, when its target is an http or https URL whose host
\* passes the host test, returns 422 with the message "Unsupported segment
\* type" and fetches nothing; with another scheme or a blocked host it is
\* rejected with 400 or 403 and fetches nothing.
C19_ImageRejected ==
  [][imageWithoutFlag
       => /\ gw'.pc = "done" /\ gw'.fetches = gw.fetches
          /\ IF gw.req.scheme \notin {"http", "https"}
               THEN gw'.status = 400
             ELSE IF gw.req.host \in {"localhost", "127.0.0.1", "10.0.0.1"}
               THEN gw'.status = 403
             ELSE /\ gw'.status = 422
                  /\ gw'.message = "Unsupported segment type"]_vars

\* A request for an image path on a public https host, with a token whose
\* context is an object without the image flag, has been answered 422
C19_Witness ==
  /\ gw.pc = "done" /\ gw.status = 422 /\ gw.fetches = 0
  /\ gw.req.image /\ gw.req.scheme = "https"
  /\ gw.req.host = "cdn.example.com"
  /\ gw.tokenValue = <<[object |-> TRUE, img |-> FALSE, enc |-> FALSE]>>

\* The private and loopback hosts among Hosts: localhost, ::1, 127.*, 10.*,
\* 192.168.*
privateOrLoopback ==
  {"localhost", "[::1]", "127.0.0.1", "10.0.0.1", "192.168.1.5"}

\* C20: an upstream fetch is issued only if the target scheme is http or
\* https and the target host is not private or loopback or is the gateway's
\* own request host; any other request is rejected without a fetch.
C20_FetchOnlyAllowedTargets ==
  [][/\ gw'.fetches > gw.fetches
          => /\ gw.req.scheme \in {"http", "https"}
             /\ \/ gw.req.host \notin privateOrLoopback
                \/ gw.req.host = requestHost
     /\ (/\ lookupReturns /\ gw.req.url = "ok"
         /\ \/ gw.req.scheme \notin {"http", "https"}
            \/ /\ gw.req.host \in privateOrLoopback
               /\ gw.req.host # requestHost)
          => /\ gw'.pc = "done" /\ gw'.status \in {400, 403}
             /\ gw'.fetches = gw.fetches]_vars

\* The gateway has answered a request for which the upstream answered
answeredUpstream == gw.pc = "done" /\ gw.response # NoUpstream

\* The answer is an error that carries no upstream body
errorAnswer == gw.status >= 400 /\ gw.body = "error"

\* C21: no response that passes an upstream body on has content type
\* text/html, application/json or image/*; an upstream text/html or
\* application/json is answered with an error status; an upstream image/* is
\* answered with an error unless the token allows image segments and, when
\* the token does not mark them encrypted, the first chunk has media magic
\* bytes; an allowed image/* body goes out as application/octet-stream.
C21_ContentTypeEnforced ==
  /\ (gw.pc = "done" /\ gw.body = "upstream")
       => ~isHtmlOrJson(gw.contentType) /\ ~isImageType(gw.contentType)
  /\ (answeredUpstream /\ isHtmlOrJson(gw.response.contentType))
       => errorAnswer
  /\ (answeredUpstream /\ isImageType(gw.response.contentType))
       => IF /\ gw.response.status < 300
             /\ gw.tokenValue[1].object /\ gw.tokenValue[1].img
             /\ (gw.tokenValue[1].enc \/ gw.response.media)
            THEN /\ gw.body = "upstream"
                 /\ gw.contentType = "application/octet-stream"
                 /\ gw.status = gw.response.status
            ELSE errorAnswer

\* An image/png body with media magic bytes has been passed on as
\* application/octet-stream for a token that allows image segments and does
\* not mark them encrypted
C21_Witness ==
  /\ gw.pc = "done" /\ gw.body = "upstream"
  /\ gw.response.contentType = "image/png" /\ gw.response.media
  /\ gw.tokenValue = <<[object |-> TRUE, img |-> TRUE, enc |-> FALSE]>>
  /\ gw.contentType = "application/octet-stream"

\* The job with this id, as the registry or else the cache holds it
theJob(id) == IF jobs[id] # NoJob THEN jobs[id] ELSE jobCache[id]

\* C22: for every job J and requester R other than J's owner, the status,
\* cancel and file routes answer 403 with nothing of J, and the cancel route
\* changes neither J nor its run (no signal); the list for R never holds J;
\* an id that names no job gets 404.
C22_Ownership ==
  /\ [](\A u \in Users, id \in Ids :
          /\ (theJob(id) # NoJob /\ theJob(id).user # u)
               => /\ statusResponse(u, id) = errorBody(403, "Forbidden")
                  /\ \A stats \in BOOLEAN :
                       fileResponse(u, id, stats) = errorBody(403, "Forbidden")
                  /\ cancelResponse(u, id) = 403
                  /\ id \notin listJobsForUser(u)
          /\ theJob(id) = NoJob
               => /\ statusResponse(u, id).code = 404
                  /\ \A stats \in BOOLEAN : fileResponse(u, id, stats).code = 404
                  /\ cancelResponse(u, id) = 404)
  /\ [][\A u \in Users, id \in Ids :
          (/\ CancelRoutePOST(u, id)
           /\ theJob(id) # NoJob /\ theJob(id).user # u)
            => /\ jobs' = jobs /\ calls' = calls
               /\ jobControllers' = jobControllers
               /\ cleanupTimers' = cleanupTimers]_vars

\* u1's job is running in the registry with its signal not raised, another
\* job of u1 is left in the cache only, and u2 is refused on both
C22_Witness ==
  \E id, c \in Ids :
    /\ jobs[id].status = "running" /\ jobs[id].user = "u1"
    /\ ~calls[id].aborted
    /\ jobs[c] = NoJob /\ jobCache[c].status = "completed"
    /\ jobCache[c].user = "u1"
    /\ statusResponse("u2", id).code = 403
    /\ cancelResponse("u2", c) = 403
    /\ listJobsForUser("u2") = {}

\* C23: when the transcode run returned a complete output, the job (unless
\* it was canceled or has been cleaned up) ends in status completed with its
\* output, whether or not a cache write of updateJob or markJobCompleted was
\* rejected.
C23_CacheWriteNeverChangesOutcome ==
  \A id \in Ids :
    (/\ calls[id].kind = "job" /\ calls[id].pc = "done"
     /\ calls[id].outcome = "ok"
     /\ jobs[id] # NoJob /\ jobs[id].error # "Canceled")
      => jobs[id].status = "completed" /\ jobs[id].output

\* ------------------------------------------------------------ C24

\* The downloads of the workers that are in flight
inFlight == {t \in poolWorkers(pool) : pool.th[t].pc \in {"fetch", "body"}}

\* The workers that hold segment index i
holders(i) == {t \in poolWorkers(pool) :
                 pool.th[t].pc # "none" /\ pool.th[t].index = i}

\* C24: in every interleaving of the workers each segment index is claimed
\* by at most one worker and no two workers hold the same index; when the
\* pool returns its playlist every segment was claimed once and downloaded
\* once; at most `concurrency` segment downloads are in flight at any time
C24_SegmentClaimExclusive ==
  /\ \A i \in 1..MaxSegs :
       /\ pool.claims[i] <= 1
       /\ pool.downloaded[i] <= pool.claims[i]
       /\ (pool.pc \notin {"idle", "mkdir", "keys"} /\ i <= pool.segs)
            => Cardinality(holders(i)) <= 1
  /\ Cardinality(inFlight) <= pool.concurrency
  /\ pool.result = "playlist"
       => \A i \in 1..pool.segs :
            pool.claims[i] = 1 /\ pool.downloaded[i] = 1

\* The pool has returned the playlist of 7 segments fetched by two workers,
\* one of which needed a second try
C24_Witness ==
  /\ pool.result = "playlist" /\ pool.segs = 7
  /\ pool.th[1].pc = "returned" /\ pool.th[2].pc = "returned"
  /\ pool.th[1].index # pool.th[2].index
  /\ pool.th[1].attempt = 1

\* ------------------------------------------------------------ C25

\* The fetch tries thread t has made for the resource it holds
tries(t) == pool.th[t].attempt + 1

\* C25: every key, map or segment download makes at most retries + 1 tries
\* (3 with the default); once all tries of one resource have failed the
\* pool operation has failed, playlist-local.m3u8 is not written, and the
\* caller goes on with the manifest in the same attempt
C25_RetryBudget ==
  /\ \A t \in Threads :
       pool.th[t].pc # "none" => tries(t) <= pool.retries + 1
  /\ (\E t \in Threads : pool.th[t].pc = "thrown")
       => /\ pool.pc = "done"
          /\ pool.result \in {"Segment download failed", "Download aborted"}
          /\ pool.caller \in {"none", "manifest"}

\* A segment has failed three times under the default of two retries, no
\* signal was raised, and the caller has written the manifest
C25_Witness ==
  /\ pool.retries = DEFAULT_SEGMENT_RETRY /\ ~poolAborted(pool)
  /\ \E t \in poolWorkers(pool) :
       pool.th[t].pc = "thrown" /\ tries(t) = 3
  /\ pool.result = "Segment download failed"
  /\ pool.caller = "manifest"

\* ------------------------------------------------------------ C26

\* The signal was raised while the pool operation was under way
raisedInTime == pool.abortedAt \in {"idle", "mkdir", "keys", "workers"}

\* C26: once the cancellation signal is raised no worker claims another
\* segment, a download that fails is not retried, and the pool operation
\* ends with the error "Download aborted", not with a result
C26_PoolCancellation ==
  /\ [][poolAborted(pool)
          => /\ pool'.nextIndex = pool.nextIndex
             /\ \A t \in Threads :
                  pool'.th[t].pc = "sleep" => pool.th[t].pc = "sleep"]_vars
  /\ []((raisedInTime /\ pool.pc = "done" /\ pool.result # "null")
          => pool.result = "Download aborted")

\* ------------------------------------------------------------ C27

\* The levels of playlists followed, the fetches made and the variant asked
\* for stay within their limits, and no level is one followed before
resolveBounded ==
  /\ media.depth <= maxDepth /\ media.levels <= maxDepth
  /\ media.levels <= Cardinality(media.visited)
  /\ media.pc # "done" => media.levels = Cardinality(media.visited)
  /\ media.pc = "variant" => asked(media).url \notin media.visited
  /\ media.fetches <= 1 + maxDepth * MaxVariants

\* C27: resolveMediaPlaylist ends for every graph of playlists, also when
\* masters refer to each other or nest without end: it follows at most
\* maxDepth levels, never follows the variants of a URL it has visited, and
\* makes at most 1 + maxDepth * (variants per master) fetches
C27_ResolveTerminates ==
  /\ []resolveBounded
  /\ <>(media.pc = "done")

\* The call has returned after three levels of masters and seven fetches
C27_Witness ==
  /\ media.pc = "done" /\ ~media.error
  /\ media.levels = maxDepth /\ media.depth = maxDepth
  /\ media.fetches = 1 + maxDepth * MaxVariants

\* A fetched playlist that redirected to the visited "a" became the current
\* one and the call returned it without following it again
C27_WitnessCycle ==
  /\ media.pc = "done" /\ ~media.error
  /\ media.depth = 1 /\ media.levels = 1
  /\ media.result.url = "a" /\ media.result.variants # <<>>

\* ------------------------------------------------------------ C28

\* The variants of the current master in the order of their fetches
sorted == sortVariants(media.current.variants)

\* The place in that order of the first variant that is fetched
firstFetched ==
  CHOOSE j \in 1..Len(sorted) :
    /\ sorted[j].url \notin media.visited
    /\ \A k \in 1..(j - 1) : sorted[k].url \in media.visited

\* The answers to a fetch that are classified likely playable
PlayableAnswers ==
  {c \in PlaylistResults({"a", "b", "c"}, 1..MaxBandwidth) : c.playable}

\* C28: the variants of a master are fetched in non-increasing bandwidth
\* order; the first one classified likely playable ends the fetching and is
\* returned, so every variant of a higher bandwidth was passed before it;
\* when none is likely playable resolution goes on from the first variant
\* fetched
C28_BandwidthOrder ==
  /\ [](media.pc = "variant"
          => \A j \in 1..Len(sorted) :
               /\ j < media.pos
                    => sorted[j].bandwidth >= asked(media).bandwidth
               /\ sorted[j].bandwidth > asked(media).bandwidth
                    => j < media.pos)
  /\ [][media.pc = "variant"
          => \A candidate \in PlayableAnswers :
               (candidate.url = asked(media).url /\ ResolveVariant(candidate))
                 => /\ media'.pc = "done" /\ media'.result = candidate
                    /\ media'.fetches = media.fetches]_vars
  /\ [][(media.pc = "variant" /\ media'.result.playable)
          => media'.result.url = asked(media).url]_vars
  /\ [][(media.pc = "variant" /\ media'.depth = media.depth + 1)
          => /\ media'.current.url = sorted[firstFetched].url
             /\ ~media'.current.playable]_vars

\* The master lists its variant of bandwidth 1 before that of bandwidth 2;
\* the second was fetched first and is not playable, the first is playable
\* and was returned
C28_Witness ==
  /\ media.pc = "done" /\ media.result.playable
  /\ Len(media.current.variants) = 2
  /\ media.current.variants[1].bandwidth = 1
  /\ media.current.variants[2].bandwidth = 2
  /\ media.result.url = media.current.variants[1].url
  /\ media.fallback.url = media.current.variants[2].url
  /\ media.fetches = 3

\* ------------------------------------------------------------ C29

\* The fallback extensions whose sampled candidates all probe positive
positiveFallbacks ==
  {f \in 1..Len(FallbackExtensions) :
     \/ resolver.probes[f] = 0
     \/ resolver.probes[f] > sampleLength(resolver.content)}

\* C29: a substitution is accepted only if for one fallback extension every
\* sampled candidate (at most 5, all of the first invalid extension) probes
\* positive; the accepted playlist has that fallback extension on every
\* line that had the first invalid extension, every other line as it was,
\* and no segment line of a non-media extension
C29_SubstitutionAccepted ==
  (resolver.pc = "done" /\ resolver.rewrite = "ok")
    => /\ sampleLength(resolver.content) \in 1..MAX_SEGMENT_PROBES
       /\ \E f \in positiveFallbacks :
            \A i \in DOMAIN resolver.content :
              resolver.manifest[i] =
                IF resolver.content[i] = primaryExt(resolver.content)
                  THEN FallbackExtensions[f] ELSE resolver.content[i]
       /\ DOMAIN resolver.manifest = DOMAIN resolver.content
       /\ \A i \in DOMAIN resolver.manifest :
            resolver.manifest[i] \notin InvalidExtensions \cup {"IMGX"}

\* Seven .jpg segments: the probes of .ts failed at the third candidate,
\* those of .m4s passed, and every segment now carries .m4s
C29_Witness ==
  /\ resolver.pc = "done" /\ resolver.rewrite = "ok"
  /\ Lines(resolver.content, "IMG") = 7
  /\ resolver.probes[1] = 3 /\ resolver.probes[2] = 0
  /\ Lines(resolver.manifest, "M4S") = 7

\* ------------------------------------------------------------ C30

\* The segment lines, and those of a non-media extension
isSegmentLine(kind) ==
  kind \in {"SEG", "IMG", "IMGX", "PNG", "TS", "M4S", "MP4"}
isInvalidLine(kind) == kind \in InvalidExtensions \cup {"IMGX"}

\* The #EXTINF at line i of content precedes a segment line of a non-media
\* extension: the first segment line after it is one
precedesInvalid(content, i) ==
  \E j \in (i + 1)..Len(content) :
    /\ isInvalidLine(content[j])
    /\ \A k \in (i + 1)..(j - 1) : ~isSegmentLine(content[k])

\* The #EXTINF at line i of content has a segment line after it before the
\* next #EXTINF
paired(content, i) ==
  \E j \in (i + 1)..Len(content) :
    /\ isSegmentLine(content[j])
    /\ \A k \in (i + 1)..(j - 1) :
         ~isSegmentLine(content[k]) /\ content[k] # "EXTINF"

extinfs(content) == {i \in DOMAIN content : content[i] = "EXTINF"}

\* C30: for a playlist with #EXTINF tags, the output of
\* filterInvalidSegments has no segment line of a non-media extension,
\* keeps every valid segment line, keeps no #EXTINF that preceded a removed
\* segment line, also when other tags stand between the two, so that no
\* paired #EXTINF is left without its segment line, and `removed` is the
\* number of segment lines dropped
C30_ExtinfPaired ==
  (resolver.pc = "done" /\ hasMediaSegments(resolver.content))
    => /\ \A i \in DOMAIN resolver.manifest :
            ~isInvalidLine(resolver.manifest[i])
       /\ Lines(resolver.manifest, "SEG") = Lines(resolver.content, "SEG")
       /\ Cardinality(extinfs(resolver.manifest))
            <= Cardinality({i \in extinfs(resolver.content) :
                              ~precedesInvalid(resolver.content, i)})
       /\ (\A i \in extinfs(resolver.content) : paired(resolver.content, i))
            => \A i \in extinfs(resolver.manifest) :
                 paired(resolver.manifest, i)
       /\ resolver.removed
            = Cardinality({i \in DOMAIN resolver.content :
                             isInvalidLine(resolver.content[i])})

\* ------------------------------------------------------------ C31

\* C31: a playlist fetch that fails (a response that is not 2xx) ends the
\* current attempt without the transcoder being started in it: the driver
\* goes on with the next attempt mode or the call fails
C31_FetchFailureAbortsAttempt ==
  [][\A c \in Ids :
       ResolveWith(c, "fetchFailed")
         => /\ calls'[c].pc # "ffmpeg" \/ calls'[c].attempt > calls[c].attempt
            /\ \/ calls'[c].attempt = calls[c].attempt + 1
               \/ calls'[c].pc \in {"exhausted", "done"}]_vars

\* The line refers to the upstream host: a segment line or a URI attribute
\* of a key, init-map, session-key, media, part or preload-hint tag that is
\* an http(s) URL (or relative to the playlist) and not a gateway URL
upstream(line) ==
  /\ line.tag \in UriTags \cup {"SEG"}
  /\ line.uri.scheme \in {"relative", "http", "https"}

\* C32: in a proxy-mode attempt the input given to the transcoder is a local
\* manifest, and each of its http(s) segment URIs and URI attributes of key,
\* init-map, session-key, media, part and preload-hint tags is a gateway URL
\* with the token of that attempt
C32_ProxyInputLocal ==
  (transcoder.pc = "ffmpeg" /\ transcoder.useProxy)
    => /\ transcoder.inputUrl = "playlistPath"
       /\ \A i \in 1..Len(transcoder.manifest) :
            LET line == transcoder.manifest[i] IN
            /\ ~upstream(line)
            /\ line.uri.scheme = "proxy" => line.uri.token = transcoder.proxyToken

\* C33: every job that has reached a terminal status (completed or failed)
\* gets its cancellation controller detached and is in the end removed from
\* the registry by the delayed cleanup, the timers firing, also when the
\* cache writes of the terminal transition are rejected
C33_TerminalJobsCleanedUp ==
  \A id \in Ids :
    /\ (jobs[id].status \in {"completed", "failed"})
         ~> (id \notin jobControllers)
    /\ (jobs[id].status \in {"completed", "failed"})
         ~> (jobs[id].status = "none")

\* The patch gives no value for the progress field f: no such key, or the
\* key with the value undefined
suppliesNone(patch, f) ==
  f \notin DOMAIN patch.progress \/ patch.progress[f] = <<>>

\* C34: updateJob merges: every job field the patch does not name keeps its
\* value (updatedAt, which every update sets, aside), with a progress object
\* in the patch every progress field the patch gives no value for keeps its
\* previous value, and on an id that is not in the registry nothing changes
\* and none is returned
C34_UpdateJobMerges ==
  [][\A known \in BOOLEAN, patch \in JobPatches :
       EntryUpdate(known, patch)
         => IF ~known
            THEN tracked' = [tracked EXCEPT !.returned = "null"]
            ELSE /\ \A f \in (JobFields \ {"updatedAt", "progress"}) \ DOMAIN patch :
                      tracked'[f] = tracked[f]
                 /\ "progress" \notin DOMAIN patch => tracked'.progress = tracked.progress
                 /\ "progress" \in DOMAIN patch =>
                      \A f \in ProgressFields :
                        suppliesNone(patch, f)
                          => tracked'.progress[f] = tracked.progress[f]]_vars

NoDuplicates(ids) ==
  \A i, j \in 1..Len(ids) : ids[i] = ids[j] => i = j

\* C35: with the index updates of one user's submissions running one after
\* the other, the cached index has no id twice, has at most 50 entries, and
\* is the list of the latest submitted jobs (those whose index write was
\* carried out), the latest first
C35_IndexSequential ==
  /\ NoDuplicates(userIndex.cache)
  /\ Len(userIndex.cache) <= 50
  /\ userIndex.cache
       = SubSeq(userIndex.written, 1,
                IF Len(userIndex.written) <= 50 THEN Len(userIndex.written)
                ELSE 50)

\* more than 50 submissions were written: the oldest left the index
C35_Witness ==
  /\ Len(userIndex.written) > 50
  /\ Len(userIndex.cache) = 50
  /\ userIndex.cache[1] = userIndex.written[1]
  /\ userIndex.errors > 0

indexQuiet ==
  /\ \A o \in Slots : userIndex.op[o].pc = "idle"
  /\ userIndex.listing.pc = "idle"
  /\ userIndex.errors = 0

\* C37: no index update is lost under interleaving: once concurrent
\* submissions of one user, or a submission and a self-healing listing, have
\* all finished, the id of every submitted job that still resolves to a job
\* is in the user's cached index
C37_IndexUpdatesKept ==
  indexQuiet
    => \A id \in 1..(userIndex.nextJob - 1) :
         id \notin userIndex.gone
           => \E i \in 1..Len(userIndex.cache) : userIndex.cache[i] = id

\* The call c was allowed by checkAndConsumeQuota to consume one unit (it is
\* no check-only call) and no refund has been started for it
consumedUnrefunded(c) ==
  /\ calls[c].kind # "none"
  /\ ~calls[c].checkOnly
  /\ calls[c].pc \notin {"idle", "validate", "quotaGet"}
  /\ calls[c].quotaResult.allowed
  /\ calls[c].refunds = <<>>

\* C38: for one user and day with the limit L and no cache errors, however
\* the consuming calls interleave, the allowed consumptions that were not
\* refunded are never more than L
C38_ConcurrentConsumptionBounded ==
  Cardinality({c \in Ids : calls[c].user = "u1" /\ consumedUnrefunded(c)})
    <= limitPerDayOf(config["u1"])

\* The pool operation has thrown because a download used up its retries
poolFailed == pool.pc = "done" /\ pool.result = "Segment download failed"

\* C39: after the pool operation failed because one download used up its
\* retries, no worker of the pool claims another segment or starts another
\* download, and none is running while the transcoder runs on the manifest
\* written as the fallback
C39_NoWorkAfterPoolFailure ==
  /\ [][poolFailed
          => /\ pool'.nextIndex = pool.nextIndex
             /\ \A t \in poolWorkers(pool) :
                  pool'.th[t].pc = "fetch" => pool.th[t].pc = "fetch"]_vars
  /\ []((poolFailed /\ pool.caller = "manifest") => inFlight = {})

====
